---- MODULE Spec2Model ----
(***************************************************************************)
(* Flight-lookup API (src/api_server.py): the fixed-window rate limiter    *)
(* rate_limiter, the /api/flights handler and the on-demand generator      *)
(* generate_flights_on_demand; the abuse simulator that calls the API and  *)
(* the permission upgrade of register.py.                                  *)
(*                                                                         *)
(* Spec     request handlers running concurrently on the threads Threads  *)
(* SpecSeq  the same handlers, one request at a time                       *)
(* SpecGen  generate_flights_on_demand alone, one loop iteration per step  *)
(* SpecTiers    one request at a time, the users at any permission level   *)
(* SpecUpgrade  the same while register.py upgrades permission levels      *)
(* SpecStore    the same while data/users.json is replaced or broken       *)
(* SpecHarness  src/cli/simulate_abuse.py: the loops of the four scenarios *)
(* SpecHarnessFair  the same with every thread of the simulator scheduled  *)
(* SpecDist     the distributed scenario over pools of one to six tokens   *)
(* SpecRace     the distributed scenario, the += of make_request in steps  *)
(* SpecPoll     src/ticket-checker.py polling the API at its tier interval *)
(* SpecSave     one request at a time while register.py rewrites the file  *)
(* SpecIncomplete  one request at a time, queries without route or date    *)
(* SpecRegister    register.py: registrations and renamings, one at a time *)
(***************************************************************************)
EXTENDS Integers, Sequences, FiniteSets, TLC

(* ------------------------------ bounds -------------------------------- *)
\* number of requests the hammering client (tokA) sends
MaxRequests == 17
\* number of requests the other registered client (tokB) sends
MaxOther == 1
\* the clock runs over the windows 0..MaxWindow
MaxWindow == 1

\* the server threads that handle requests at the same time
Threads == {"h1", "h2"}

(* ------------------------- values of the source ----------------------- *)
\* "absent": a key that is not in a dict / not in the query string
None == "None"

\* window = 60 (api_server.py:50)
window == 60

\* Strings that int() is applied to are sequences of characters.
Digits == <<"0", "1", "2", "3", "4", "5", "6", "7", "8", "9">>
IsDigit(c) == \E i \in 1..10 : Digits[i] = c
DigitVal(c) == (CHOOSE i \in 1..10 : Digits[i] = c) - 1

RECURSIVE DigitsValue(_)
DigitsValue(s) ==
    IF s = << >> THEN 0
    ELSE 10 * DigitsValue(SubSeq(s, 1, Len(s) - 1)) + DigitVal(s[Len(s)])

\* int(s) for a str s: an optional sign followed by decimal digits is
\* converted, anything else raises ValueError
Unsigned(s) == IF Len(s) > 0 /\ s[1] \in {"-", "+"} THEN SubSeq(s, 2, Len(s)) ELSE s

RaisesValueError(s) ==
    Unsigned(s) = << >> \/ \E i \in 1..Len(Unsigned(s)) : ~IsDigit(Unsigned(s)[i])

int(s) ==
    IF Len(s) > 0 /\ s[1] = "-" THEN 0 - DigitsValue(Unsigned(s))
    ELSE DigitsValue(Unsigned(s))

\* dict.get(key, default)
Get(d, k, default) == IF k \in DOMAIN d THEN d[k] ELSE default

(* --------------------- rule tables (api_server.py) -------------------- *)
AIRLINES ==
    [c \in {"CI", "BR", "JX", "TG", "JL", "SQ", "TR", "IT"} |->
        CASE c = "CI" -> "China Airlines"
          [] c = "BR" -> "EVA Air"
          [] c = "JX" -> "Starlux"
          [] c = "TG" -> "Thai Airways"
          [] c = "JL" -> "Japan Airlines"
          [] c = "SQ" -> "Singapore Airlines"
          [] c = "TR" -> "Scoot"
          [] c = "IT" -> "Tigerair Taiwan"]

Categories == {"promo", "normal", "peak"}

\* a price table of one route: category -> (min, max)
PriceTable(pmin, pmax, nmin, nmax, kmin, kmax) ==
    [c \in Categories |->
        CASE c = "promo"  -> <<pmin, pmax>>
          [] c = "normal" -> <<nmin, nmax>>
          [] c = "peak"   -> <<kmin, kmax>>]

PRICE_CATEGORIES ==
    [r \in {<<"TPE", "NRT">>, <<"TPE", "KIX">>, <<"TPE", "SIN">>, <<"TPE", "BKK">>} |->
        CASE r = <<"TPE", "NRT">> -> PriceTable(3500, 5500, 6000, 10000, 11000, 16000)
          [] r = <<"TPE", "KIX">> -> PriceTable(3500, 5500, 6000, 10000, 11000, 16000)
          [] r = <<"TPE", "SIN">> -> PriceTable(3500, 5500, 6000, 9000, 9000, 12000)
          [] r = <<"TPE", "BKK">> -> PriceTable(3000, 5000, 5500, 8500, 8500, 11000)]

DEFAULT_PRICE_RANGES == PriceTable(2000, 4000, 4000, 7000, 7000, 10000)

\* the cabin labels of the source, transliterated
CABIN_TYPE_MAP ==
    [t \in {"economy", "economy_promo", "business", "first"} |->
        CASE t = "economy"       -> "normal"
          [] t = "economy_promo" -> "promo"
          [] t = "business"      -> "peak"
          [] t = "first"         -> "peak"]

(* ------------------ generate_flights_on_demand (pure) ----------------- *)
Max2(a, b) == IF a >= b THEN a ELSE b
Min2(a, b) == IF a <= b THEN a ELSE b

\* Python truthiness of a query value: None and the empty string are false
Falsy(v) == v = None \/ v = ""

\* random.choice / random.randint draws that carry no arithmetic are sampled
\* at these values; the price draw below ranges over its whole interval
AirlineDraws == {"CI"}
FlightNoDraws == {100, 999}
HourDraws == {7, 21}
MinuteDraws == {<<"0", "0">>, <<"3", "0">>}

\* the draws of one record, sampled together: every flight number, every
\* hour, every minute and every time of day occurs in some sample
RecordDraws ==
    { d \in FlightNoDraws \X HourDraws \X MinuteDraws :
        (d[1] = 100) <=> (d[3] = <<"0", "0">>) }

\* a resolution that takes an unknown type of the request as the category
TicketTypesPassThrough(req_type) ==
    IF ~Falsy(req_type) /\ req_type \in DOMAIN CABIN_TYPE_MAP
        THEN {CABIN_TYPE_MAP[req_type]}
    ELSE IF ~Falsy(req_type)
        THEN {req_type}
    ELSE {"promo", "normal", "peak"}

\* a resolution that does not know the cabin labels
TicketTypesNoAlias(req_type) ==
    IF req_type \in {"promo", "normal", "peak"}
        THEN {req_type}
    ELSE {"promo", "normal", "peak"}

\* lines 113-120: the categories an iteration may resolve req_type to
TicketTypes(req_type) ==
    IF ~Falsy(req_type) /\ req_type \in DOMAIN CABIN_TYPE_MAP
        THEN {CABIN_TYPE_MAP[req_type]}
    ELSE IF req_type \in {"promo", "normal", "peak"}
        THEN {req_type}
    ELSE {"promo", "normal", "peak"}

\* a lookup that uses the default table for every route
TypePriceRangeDefaultOnly(from_loc, to_loc, ticket_type) ==
    LET route_prices == DEFAULT_PRICE_RANGES
    IN  Get(route_prices, ticket_type, <<0, 99999>>)

\* lines 123-127
TypePriceRange(from_loc, to_loc, ticket_type) ==
    LET route_prices == Get(PRICE_CATEGORIES, <<from_loc, to_loc>>, DEFAULT_PRICE_RANGES)
    IN  Get(route_prices, ticket_type, <<0, 99999>>)

\* lines 132-133
final_min_price(params, ticket_type) ==
    Max2(Get(params, "min_price", 0),
         TypePriceRange(params["from"], params["to"], ticket_type)[1])
final_max_price(params, ticket_type) ==
    Min2(Get(params, "max_price", 99999),
         TypePriceRange(params["from"], params["to"], ticket_type)[2])

\* a price that is not floored to a multiple of 100
PriceOfNoFloor(r) == r

\* a price rounded up to the next multiple of 100
PriceOfRoundsUp(r) == ((r + 99) \div 100) * 100

\* line 146: the price computed from the draw r = random.randint(lo, hi)
PriceOf(r) == (r \div 100) * 100

\* f"{n:02d}" for 0 <= n <= 99
Format02d(n) == <<Digits[(n \div 10) + 1], Digits[(n % 10) + 1]>>

\* a time written without the zero padding of the hour
TimeStringNoPad(hour, minute) ==
    (IF hour < 10 THEN <<Digits[hour + 1]>> ELSE Format02d(hour)) \o <<":">> \o minute

\* line 145: f"{hour:02d}:{minute}", as its sequence of characters
TimeString(hour, minute) == Format02d(hour) \o <<":">> \o minute

\* lines 139-148: the records one iteration may append for a resolved category
FlightsOfType(params, ticket_type) ==
    { [flight  |-> <<airline_code, d[1]>>,
       airline |-> AIRLINES[airline_code],
       from    |-> params["from"],
       to      |-> params["to"],
       date    |-> params["date"],
       time    |-> TimeString(d[2], d[3]),
       price   |-> PriceOf(r),
       type    |-> ticket_type] :
        airline_code \in AirlineDraws, d \in RecordDraws,
        r \in final_min_price(params, ticket_type)..final_max_price(params, ticket_type) }

\* a skip test that also drops the one-point intersection
SkipsWhenEqual(params, ticket_type) ==
    final_min_price(params, ticket_type) >= final_max_price(params, ticket_type)

\* lines 136-137: the iteration is skipped when the intersection is empty
Skips(params, ticket_type) ==
    final_min_price(params, ticket_type) > final_max_price(params, ticket_type)

\* sorted(generated_flights, key=price): a stable insertion sort
RECURSIVE InsertByPrice(_, _)
InsertByPrice(sorted, x) ==
    IF sorted = << >> THEN <<x>>
    ELSE IF sorted[Len(sorted)].price <= x.price THEN Append(sorted, x)
    ELSE Append(InsertByPrice(SubSeq(sorted, 1, Len(sorted) - 1), x), sorted[Len(sorted)])

\* a return without the sort
Unsorted(fl) == fl

\* line 151
RECURSIVE SortedByPrice(_)
SortedByPrice(fl) ==
    IF fl = << >> THEN << >>
    ELSE InsertByPrice(SortedByPrice(SubSeq(fl, 1, Len(fl) - 1)), fl[Len(fl)])

\* an iteration that, when its intersection is empty, tries the other
\* categories before it gives up
IterationAppendsRetry(params, ticket_type) ==
    IF Skips(params, ticket_type)
    THEN LET others == {c \in Categories : ~Skips(params, c)}
         IN  IF others = {} THEN {<< >>}
             ELSE {<<f>> : f \in UNION {FlightsOfType(params, c) : c \in others}}
    ELSE {<<f>> : f \in FlightsOfType(params, ticket_type)}

\* lines 122-149: what one loop iteration that resolved ticket_type appends
\* to generated_flights: nothing (the iteration is skipped) or one record
IterationAppends(params, ticket_type) ==
    IF Skips(params, ticket_type)
    THEN {<< >>}
    ELSE {<<f>> : f \in FlightsOfType(params, ticket_type)}

\* a test that takes an empty string for a given condition
MissingBasicsAbsentOnly(params) ==
    \/ Get(params, "from", None) = None
    \/ Get(params, "to", None) = None
    \/ Get(params, "date", None) = None

\* line 102
MissingBasics(params) ==
    \/ Falsy(Get(params, "from", None))
    \/ Falsy(Get(params, "to", None))
    \/ Falsy(Get(params, "date", None))

RECURSIVE GeneratedAfter(_, _)
GeneratedAfter(params, n) ==
    IF n = 0 THEN {<< >>}
    ELSE UNION { {l \o a : l \in GeneratedAfter(params, n - 1),
                            a \in IterationAppends(params, ticket_type)} :
                 ticket_type \in TicketTypes(Get(params, "type", None)) }

\* lines 89-151: the lists a call may return
generate_flights_on_demand(params) ==
    IF MissingBasics(params) THEN {<< >>}
    ELSE {SortedByPrice(l) : l \in GeneratedAfter(params, Get(params, "count", 1))}

(* ------------------------------- state -------------------------------- *)
VARIABLES
    users,        \* data/users.json: token -> permission_level
    RATE_LIMIT,   \* api_server.RATE_LIMIT: key -> count
    now,          \* int(time.time())
    pc,           \* per thread: where its handler stands
    request,      \* per thread: [token, args] of the request being handled
    limit,        \* per thread: local limit of decorated
    key,          \* per thread: local key of decorated
    tmp,          \* per thread: the value RATE_LIMIT[key] += 1 has loaded
    response,     \* per thread: the response of the finished request
    sent,         \* registered token -> number of its requests so far (history)
    admitted,     \* key -> number of requests passed on to flights (history)
    rejected,     \* key -> number of requests answered 429 (history)
    g_pc,         \* generate_flights_on_demand: position of the call
    g_params,     \* its argument
    g_i,          \* iterations of its loop that have run
    generated_flights, \* its local list
    g_empty,      \* iterations whose price intersection was empty (history)
    g_result,     \* its return value
    pool,         \* simulate_abuse.py: AbuseSimulator.users, the tokens of the pool
    scenario,     \* simulate_abuse.py: the --scenario of the run
    running,      \* AbuseSimulator.running
    phase,        \* where the main thread of the simulator stands
    w_pc,         \* per loop thread: where it stands in its loop
    w_token,      \* per loop thread: the token of its requests
    time_left,    \* per loop thread: sleeps until time.time() reaches end_time
    total_requests,       \* AbuseSimulator.total_requests
    successful_requests,  \* AbuseSimulator.successful_requests
    failed_requests,      \* AbuseSimulator.failed_requests
    blocked_requests,     \* AbuseSimulator.blocked_requests
    last_status,  \* per loop thread: the status make_request returned last
    calls,        \* number of calls of make_request (history)
    log_lines,    \* lines write_log has appended to logs/ticket-checker.log
    printed,      \* number of times print_statistics has run (history)
    frame,        \* per loop thread: locals of its make_request call
    c_pc,         \* ticket-checker.py: where the FlightChecker stands
    c_level,      \* FlightChecker.permission_level
    c_flexible,   \* query_conditions.flexible_dates and not auto_mode
    c_offset,     \* _search_flexible_dates: the offset of its next request
    c_sent,       \* requests the FlightChecker has got an answer to (history)
    writing,      \* register.py: the list save_users is writing, or NoWrite
    user_list,    \* data/users.json: the list of its records, [username, token]
    reg_result    \* register.py: how its last operation ended (history)

server_vars == <<users, RATE_LIMIT, now, pc, request, limit, key, tmp,
                 response, sent, admitted, rejected>>
gen_vars == <<g_pc, g_params, g_i, generated_flights, g_empty, g_result>>
harness_vars == <<pool, scenario, running, phase, w_pc, w_token, time_left,
                  total_requests, successful_requests, failed_requests,
                  blocked_requests, last_status, calls, log_lines, printed,
                  frame>>
poll_vars == <<c_pc, c_level, c_flexible, c_offset, c_sent>>
register_vars == <<writing, user_list, reg_result>>
vars == <<server_vars, gen_vars, harness_vars, poll_vars, register_vars>>

(* ------------------------ users.json / tiers -------------------------- *)
\* lines 27-31
LimitOf(permission) ==
    IF permission = "plus" THEN 25
    ELSE IF permission = "pro" THEN 100
    ELSE 15

\* the tokens clients present: two registered ones and one that is not
Tokens == {"tokA", "tokB", "tokX"}

\* data/users.json as register.py writes it: one record per token, here
\* the function from its token to its permission_level
InitUsers == [t \in {"tokA", "tokB"} |-> IF t = "tokA" THEN "free" ELSE "plus"]

EmptyMap == [x \in {} |-> 0]

\* the states of data/users.json that are no such list: the file does not
\* exist (line 16), its content is no JSON (json.load raises
\* JSONDecodeError), or one of its records has no "token" (user["token"]
\* raises KeyError; that record is the one under the key None)
FileAbsent == [e \in {"ENOENT"} |-> None]
FileInvalidJSON == [e \in {"JSONDecodeError"} |-> None]
FileTokenlessRecord == [t \in {"tokA", None} |-> "free"]
BrokenFiles == {FileAbsent, FileInvalidJSON, FileTokenlessRecord}

\* a token map that is built once, from the users file the server started with
load_user_tokensAtStart(file) ==
    [t \in DOMAIN InitUsers |-> [role |-> InitUsers[t], limit |-> LimitOf(InitUsers[t])]]

\* a token map that keeps the records read before the KeyError
load_user_tokensPartial(file) ==
    IF file = FileAbsent \/ file = FileInvalidJSON
    THEN EmptyMap
    ELSE [t \in DOMAIN file \ {None} |-> [role |-> file[t], limit |-> LimitOf(file[t])]]

\* lines 15-35
load_user_tokens(file) ==
    IF file = FileAbsent
    THEN EmptyMap
    ELSE IF file = FileInvalidJSON \/ None \in DOMAIN file
    THEN EmptyMap
    ELSE [t \in DOMAIN file |-> [role |-> file[t], limit |-> LimitOf(file[t])]]

\* query strings the clients send
GoodArgs ==
    [from |-> "TPE", to |-> "NRT", date |-> "2025-07-01", type |-> "promo",
     min_price |-> <<"4", "0", "0", "0">>, max_price |-> <<"4", "0", "9", "9">>]
BadArgs == [GoodArgs EXCEPT !.min_price = <<"a", "b", "c">>]
Args == {GoodArgs, BadArgs}

(* --------------------------- rate_limiter ----------------------------- *)
\* app.run serves every request on a thread of its own and decorated takes
\* no lock: each access to the shared dict RATE_LIMIT (setdefault on line
\* 52, the read of the test on line 53, the load and the store of += on
\* line 55) is a step of its own, and another handler may run between any
\* two of them.
Count(f, k) == IF k \in DOMAIN f THEN f[k] ELSE 0
Bump(f, k) == [x \in DOMAIN f \cup {k} |-> IF x = k THEN Count(f, k) + 1 ELSE f[x]]

Unauthorized == [status |-> 401, flights |-> None]
\* a rejection that is answered as a success without records
EmptySuccess == [status |-> 200, flights |-> << >>]
\* line 54
TooManyRequests == [status |-> 429, flights |-> None]
BadRequest == [status |-> 400, flights |-> None]
Ok(fl) == [status |-> 200, flights |-> fl]

\* the number of requests a registered client sends (requests with an
\* unknown token leave no trace and need no bound)
Budget(token) == IF token = "tokA" THEN MaxRequests ELSE MaxOther

\* a key that does not know the window: one counter per token for ever
KeyOfToken(token, t) == <<token, 0>>

\* line 51
KeyOf(token, t) == <<token, t \div window>>

\* a decorated that touches the counter store before it knows the token
ReceiveCountsFirst(th, token, args) ==
    /\ pc[th] = "idle"
    /\ token \in DOMAIN sent => sent[token] < Budget(token)
    /\ sent' = [t \in DOMAIN sent |-> IF t = token THEN sent[t] + 1 ELSE sent[t]]
    /\ request' = [request EXCEPT ![th] = [token |-> token, args |-> args]]
    /\ LET current_tokens == load_user_tokens(users)
       IN  IF token \notin DOMAIN current_tokens
           THEN /\ RATE_LIMIT' = [x \in DOMAIN RATE_LIMIT \cup {KeyOf(token, now)} |->
                                    Count(RATE_LIMIT, x)]
                /\ response' = [response EXCEPT ![th] = Unauthorized]
                /\ pc' = [pc EXCEPT ![th] = "done"]
                /\ UNCHANGED <<limit, key>>
           ELSE /\ limit' = [limit EXCEPT ![th] = current_tokens[token].limit]
                /\ key' = [key EXCEPT ![th] = KeyOf(token, now)]
                /\ pc' = [pc EXCEPT ![th] = "setdefault"]
                /\ UNCHANGED <<response, RATE_LIMIT>>
    /\ UNCHANGED <<users, now, tmp, admitted, rejected, gen_vars, harness_vars, poll_vars, register_vars>>

\* lines 44-51: a request arrives on an idle thread
Receive(th, token, args) ==
    /\ pc[th] = "idle"
    /\ token \in DOMAIN sent => sent[token] < Budget(token)
    /\ sent' = [t \in DOMAIN sent |-> IF t = token THEN sent[t] + 1 ELSE sent[t]]
    /\ request' = [request EXCEPT ![th] = [token |-> token, args |-> args]]
    /\ LET current_tokens == load_user_tokens(users)
       IN  IF token \notin DOMAIN current_tokens
           THEN /\ response' = [response EXCEPT ![th] = Unauthorized]
                /\ pc' = [pc EXCEPT ![th] = "done"]
                /\ UNCHANGED <<limit, key>>
           ELSE /\ limit' = [limit EXCEPT ![th] = current_tokens[token].limit]
                /\ key' = [key EXCEPT ![th] = KeyOf(token, now)]
                /\ pc' = [pc EXCEPT ![th] = "setdefault"]
                /\ UNCHANGED response
    /\ UNCHANGED <<users, RATE_LIMIT, now, tmp, admitted, rejected, gen_vars, harness_vars, poll_vars, register_vars>>

\* line 52
SetDefault(th) ==
    /\ pc[th] = "setdefault"
    /\ RATE_LIMIT' = IF key[th] \in DOMAIN RATE_LIMIT THEN RATE_LIMIT
                     ELSE [x \in DOMAIN RATE_LIMIT \cup {key[th]} |->
                              IF x = key[th] THEN 0 ELSE RATE_LIMIT[x]]
    /\ pc' = [pc EXCEPT ![th] = "check"]
    /\ UNCHANGED <<users, now, request, limit, key, tmp, response, sent,
                   admitted, rejected, gen_vars, harness_vars, poll_vars, register_vars>>

\* the quota test with an off-by-one comparison
ExhaustedOffByOne(count, lim) == count > lim

\* line 53: the quota test
Exhausted(count, lim) == count >= lim

\* a quota test that looks at the price bounds first and answers 400 for
\* an unparsable one
CheckParsesFirst(th) ==
    /\ pc[th] = "check"
    /\ IF \E name \in {"min_price", "max_price"} :
             /\ name \in DOMAIN request[th].args
             /\ RaisesValueError(request[th].args[name])
       THEN /\ response' = [response EXCEPT ![th] = BadRequest]
            /\ pc' = [pc EXCEPT ![th] = "done"]
            /\ UNCHANGED rejected
       ELSE IF Exhausted(RATE_LIMIT[key[th]], limit[th])
       THEN /\ response' = [response EXCEPT ![th] = TooManyRequests]
            /\ rejected' = Bump(rejected, key[th])
            /\ pc' = [pc EXCEPT ![th] = "done"]
       ELSE /\ pc' = [pc EXCEPT ![th] = "incr_load"]
            /\ UNCHANGED <<response, rejected>>
    /\ UNCHANGED <<users, RATE_LIMIT, now, request, limit, key, tmp, sent,
                   admitted, gen_vars, harness_vars, poll_vars, register_vars>>

\* lines 53-54
Check(th) ==
    /\ pc[th] = "check"
    /\ IF Exhausted(RATE_LIMIT[key[th]], limit[th])
       THEN /\ response' = [response EXCEPT ![th] = TooManyRequests]
            /\ rejected' = Bump(rejected, key[th])
            /\ pc' = [pc EXCEPT ![th] = "done"]
       ELSE /\ pc' = [pc EXCEPT ![th] = "incr_load"]
            /\ UNCHANGED <<response, rejected>>
    /\ UNCHANGED <<users, RATE_LIMIT, now, request, limit, key, tmp, sent,
                   admitted, gen_vars, harness_vars, poll_vars, register_vars>>

\* line 55, RATE_LIMIT[key] += 1: the load of the old value ...
IncrLoad(th) ==
    /\ pc[th] = "incr_load"
    /\ tmp' = [tmp EXCEPT ![th] = RATE_LIMIT[key[th]]]
    /\ pc' = [pc EXCEPT ![th] = "incr_store"]
    /\ UNCHANGED <<users, RATE_LIMIT, now, request, limit, key, response,
                   sent, admitted, rejected, gen_vars, harness_vars, poll_vars, register_vars>>

\* ... and the store of the new one
IncrStore(th) ==
    /\ pc[th] = "incr_store"
    /\ RATE_LIMIT' = [RATE_LIMIT EXCEPT ![key[th]] = tmp[th] + 1]
    /\ tmp' = [tmp EXCEPT ![th] = 0]
    /\ pc' = [pc EXCEPT ![th] = "flights"]
    /\ UNCHANGED <<users, now, request, limit, key, response, sent,
                   admitted, rejected, gen_vars, harness_vars, poll_vars, register_vars>>

(* ------------------------------ flights ------------------------------- *)
\* lines 161-169: int(query_params.get(name, default))
PriceRaises(args, name) == name \in DOMAIN args /\ RaisesValueError(args[name])
ParsedPrice(args, name, default) ==
    IF name \in DOMAIN args THEN int(args[name]) ELSE default

\* params whose count is the density of the highest tier for every caller
QueryParamsTopDensity(args, token, file) ==
    [k \in DOMAIN args \cup {"min_price", "max_price", "count"} |->
        CASE k = "min_price" -> ParsedPrice(args, "min_price", 0)
          [] k = "max_price" -> ParsedPrice(args, "max_price", 99999)
          [] k = "count"     -> 3
          [] OTHER           -> args[k]]

\* lines 158-175: the params handed to generate_flights_on_demand
QueryParams(args, token, file) ==
    LET user_permission == Get(Get(load_user_tokens(file), token, [role |-> "free"]),
                               "role", "free")
        density == IF user_permission = "pro" THEN 3
                   ELSE IF user_permission = "plus" THEN 2
                   ELSE 1
    IN  [k \in DOMAIN args \cup {"min_price", "max_price", "count"} |->
            CASE k = "min_price" -> ParsedPrice(args, "min_price", 0)
              [] k = "max_price" -> ParsedPrice(args, "max_price", 99999)
              [] k = "count"     -> density
              [] OTHER           -> args[k]]

\* lines 56, 156-181: the wrapped handler runs
Flights(th) ==
    /\ pc[th] = "flights"
    /\ admitted' = Bump(admitted, key[th])
    /\ LET args == request[th].args
       IN  IF PriceRaises(args, "min_price") \/ PriceRaises(args, "max_price")
           THEN response' = [response EXCEPT ![th] = BadRequest]
           ELSE \E final_flights \in
                    generate_flights_on_demand(QueryParams(args, request[th].token, users)) :
                    response' = [response EXCEPT ![th] = Ok(final_flights)]
    /\ pc' = [pc EXCEPT ![th] = "done"]
    /\ UNCHANGED <<users, RATE_LIMIT, now, request, limit, key, tmp, sent,
                   rejected, gen_vars, harness_vars, poll_vars, register_vars>>

NoRequest == [token |-> None, args |-> None]

\* the response is sent and the thread is free again
Return(th) ==
    /\ pc[th] = "done"
    /\ pc' = [pc EXCEPT ![th] = "idle"]
    /\ request' = [request EXCEPT ![th] = NoRequest]
    /\ response' = [response EXCEPT ![th] = None]
    /\ limit' = [limit EXCEPT ![th] = 0]
    /\ key' = [key EXCEPT ![th] = None]
    /\ UNCHANGED <<users, RATE_LIMIT, now, tmp, sent, admitted, rejected, gen_vars, harness_vars, poll_vars, register_vars>>

\* time passes: the clock enters the next window
Tick ==
    /\ (now + window) \div window <= MaxWindow
    /\ now' = now + window
    /\ UNCHANGED <<users, RATE_LIMIT, pc, request, limit, key, tmp, response,
                   sent, admitted, rejected, gen_vars, harness_vars, poll_vars, register_vars>>

InitServer ==
    /\ users = InitUsers
    /\ RATE_LIMIT = EmptyMap
    /\ now = 0
    /\ pc = [th \in Threads |-> "idle"]
    /\ request = [th \in Threads |-> NoRequest]
    /\ limit = [th \in Threads |-> 0]
    /\ key = [th \in Threads |-> None]
    /\ tmp = [th \in Threads |-> 0]
    /\ response = [th \in Threads |-> None]
    /\ sent = [t \in DOMAIN InitUsers |-> 0]
    /\ admitted = EmptyMap
    /\ rejected = EmptyMap

InitGenIdle ==
    /\ g_pc = "off"
    /\ g_params = None
    /\ g_i = 0
    /\ generated_flights = << >>
    /\ g_empty = 0
    /\ g_result = None

\* simulate_abuse.py is not running
LoopThreads == {"main", "w1", "w2", "w3", "w4", "w5"}

\* the locals of make_request before requests.get has returned
NoResponse == [raised |-> FALSE, status_code |-> 0]
InitFrame == [w \in LoopThreads |-> [response |-> NoResponse, loaded |-> 0]]

InitHarnessIdle ==
    /\ pool = << >>
    /\ scenario = None
    /\ running = FALSE
    /\ phase = "off"
    /\ w_pc = [w \in LoopThreads |-> "off"]
    /\ w_token = [w \in LoopThreads |-> None]
    /\ time_left = [w \in LoopThreads |-> 0]
    /\ total_requests = 0
    /\ successful_requests = 0
    /\ failed_requests = 0
    /\ blocked_requests = 0
    /\ last_status = [w \in LoopThreads |-> None]
    /\ calls = 0
    /\ log_lines = 0
    /\ printed = 0
    /\ frame = InitFrame

\* ticket-checker.py is not running
InitPollIdle ==
    /\ c_pc = "off"
    /\ c_level = None
    /\ c_flexible = FALSE
    /\ c_offset = 0
    /\ c_sent = 0

\* register.py is not writing data/users.json
NoWrite == [e \in {"closed"} |-> None]
InitRegisterIdle ==
    /\ writing = NoWrite
    /\ user_list = << >>
    /\ reg_result = None

Init ==
    InitServer /\ InitGenIdle /\ InitHarnessIdle /\ InitPollIdle /\ InitRegisterIdle

Next ==
    \/ \E th \in Threads, token \in Tokens, args \in Args : Receive(th, token, args)
    \/ \E th \in Threads : SetDefault(th)
    \/ \E th \in Threads : Check(th)
    \/ \E th \in Threads : IncrLoad(th)
    \/ \E th \in Threads : IncrStore(th)
    \/ \E th \in Threads : Flights(th)
    \/ \E th \in Threads : Return(th)

Spec == Init /\ [][Next]_vars

\* one request at a time, over several windows
AllIdle == \A th \in Threads : pc[th] = "idle"

NextSeq ==
    \/ \E th \in Threads, token \in Tokens, args \in Args :
            AllIdle /\ Receive(th, token, args)
    \/ \E th \in Threads : SetDefault(th)
    \/ \E th \in Threads : Check(th)
    \/ \E th \in Threads : IncrLoad(th)
    \/ \E th \in Threads : IncrStore(th)
    \/ \E th \in Threads : Flights(th)
    \/ \E th \in Threads : Return(th)
    \/ Tick

SpecSeq == Init /\ [][NextSeq]_vars

(* --------- generate_flights_on_demand, one loop iteration a step ------- *)
\* the arguments the generator is called with
RouteInputs ==
    { [from |-> "TPE", to |-> "NRT", date |-> "2025-07-01"],
      [from |-> "TPE", to |-> "LAX", date |-> "2025-07-01"],
      [to |-> "NRT", date |-> "2025-07-01"] }
TypeInputs ==
    { EmptyMap, [type |-> "promo"], [type |-> "economy"], [type |-> "business"],
      [type |-> "vip"] }
PriceInputs ==
    { [min_price |-> 4000, max_price |-> 4100],
      [min_price |-> 9000, max_price |-> 9150],
      [min_price |-> 9000, max_price |-> 9500],
      [min_price |-> 4050, max_price |-> 4080],
      [max_price |-> 2100],
      [min_price |-> 15950] }
CountInputs == { [count |-> 1], [count |-> 2], [count |-> 3] }
GenInputs ==
    { r @@ t @@ p @@ c :
        r \in RouteInputs, t \in TypeInputs, p \in PriceInputs, c \in CountInputs }

\* lines 93-105
GenStart ==
    /\ g_pc = "call"
    /\ IF MissingBasics(g_params)
       THEN /\ g_result' = << >>
            /\ g_pc' = "returned"
       ELSE /\ g_pc' = "loop"
            /\ UNCHANGED g_result
    /\ UNCHANGED <<g_params, g_i, generated_flights, g_empty, server_vars, harness_vars, poll_vars, register_vars>>

\* lines 106-149: one iteration of the loop
GenIteration ==
    /\ g_pc = "loop"
    /\ g_i < Get(g_params, "count", 1)
    /\ \E ticket_type \in TicketTypes(Get(g_params, "type", None)) :
        /\ \E a \in IterationAppends(g_params, ticket_type) :
               generated_flights' = generated_flights \o a
        /\ g_empty' = IF final_min_price(g_params, ticket_type)
                           > final_max_price(g_params, ticket_type)
                      THEN g_empty + 1 ELSE g_empty
    /\ g_i' = g_i + 1
    /\ UNCHANGED <<g_pc, g_params, g_result, server_vars, harness_vars, poll_vars, register_vars>>

\* line 151
GenReturn ==
    /\ g_pc = "loop"
    /\ g_i >= Get(g_params, "count", 1)
    /\ g_result' = SortedByPrice(generated_flights)
    /\ g_pc' = "returned"
    /\ UNCHANGED <<g_params, g_i, generated_flights, g_empty, server_vars, harness_vars, poll_vars, register_vars>>

InitGen ==
    /\ InitServer
    /\ InitHarnessIdle
    /\ InitPollIdle
    /\ InitRegisterIdle
    /\ g_pc = "call"
    /\ g_params \in GenInputs
    /\ g_i = 0
    /\ generated_flights = << >>
    /\ g_empty = 0
    /\ g_result = None

NextGen == GenStart \/ GenIteration \/ GenReturn

SpecGen == InitGen /\ [][NextGen]_vars

(* ============================== claims ================================ *)
\* the limit of the identity a key belongs to
LimitOfKey(k) == load_user_tokens(users)[k[1]].limit

\* a request that computed key k is between line 51 and its answer
InFlight(k) ==
    \E th \in Threads :
        /\ pc[th] \in {"setdefault", "check", "incr_load", "incr_store", "flights"}
        /\ key[th] = k

Keys == DOMAIN RATE_LIMIT

\* C1: once the C requests of one identity in one window have all been
\* answered, exactly min(C, L) of them were admitted and the rest got 429,
\* whatever the interleaving of the handlers.
C1_ExactlyMinAdmitted ==
    \A k \in Keys :
        ~InFlight(k) =>
            Count(admitted, k) = Min2(Count(admitted, k) + Count(rejected, k), LimitOfKey(k))

\* C2: the stored count of a key never exceeds the limit of its identity.
C2_CountWithinLimit ==
    \A k \in Keys : RATE_LIMIT[k] <= LimitOfKey(k)

\* C3: with one request at a time, after every answered request the number
\* admitted for a key is min(requests so far, L): the first L requests of a
\* window are admitted and every later one is answered 429.
C3_SequentialBurst ==
    \A k \in Keys :
        /\ Count(admitted, k) <= LimitOfKey(k)
        /\ Count(rejected, k) > 0 => Count(admitted, k) = LimitOfKey(k)
        /\ ~InFlight(k) => RATE_LIMIT[k] = Count(admitted, k)

\* C3 witness: a burst of one identity went past its limit: L admitted and
\* two more answered 429
C3_Witness ==
    /\ AllIdle
    /\ \E k \in Keys :
        /\ Count(admitted, k) = LimitOfKey(k)
        /\ Count(rejected, k) >= 2

\* C4: quota isolation: no identity is admitted more often in a window than
\* its own limit allows, whatever the other identities send.
C4_QuotaIsolation ==
    \A t \in DOMAIN users :
        \A k \in DOMAIN admitted :
            k[1] = t => admitted[k] <= load_user_tokens(users)[t].limit

\* the part of C4 about the frame: a step of a handler changes no counter
\* entry of another identity
C4_FrameOnly ==
    [][\A th \in Threads : \A k \in DOMAIN RATE_LIMIT' :
          (pc'[th] # pc[th] /\ pc[th] # "idle" /\ k[1] # request[th].token)
              => (k \in DOMAIN RATE_LIMIT /\ RATE_LIMIT'[k] = RATE_LIMIT[k])]_vars

\* C5: every step of a handler whose request carries an unknown token leaves
\* the whole counter store and the admission history unchanged, and the one
\* step it takes before returning answers 401 without flight records.
C5_AuthShortCircuit ==
    [][\A th \in Threads :
          LET token == IF pc[th] = "idle" THEN request'[th].token ELSE request[th].token
          IN  (pc'[th] # pc[th] /\ token \notin DOMAIN users)
                  => /\ RATE_LIMIT' = RATE_LIMIT
                     /\ admitted' = admitted
                     /\ rejected' = rejected
                     /\ pc[th] = "idle" => (pc'[th] = "done" /\ response'[th] = Unauthorized)
                     /\ pc[th] # "idle" => (pc[th] = "done" /\ pc'[th] = "idle")]_vars

\* C5 witness: an unknown token has been answered 401 while the store holds
\* counters of other identities
C5_Witness ==
    \E th \in Threads :
        /\ pc[th] = "done"
        /\ request[th].token \notin DOMAIN users
        /\ response[th] = Unauthorized
        /\ \E k \in Keys : RATE_LIMIT[k] > 0

\* the request has a price bound that int() rejects
Malformed(args) == PriceRaises(args, "min_price") \/ PriceRaises(args, "max_price")

\* C6: no step of a handler whose request has an unparsable price bound
\* changes the count of its identity's key: the counter is the same before
\* and after the request.
C6_MalformedTakesNoSlot ==
    [][\A th \in Threads :
          (pc'[th] # pc[th] /\ pc[th] # "idle" /\ key[th] # None
             /\ Malformed(request[th].args))
              => Count(RATE_LIMIT', key[th]) = Count(RATE_LIMIT, key[th])]_vars

(* ------------------ generate_flights_on_demand claims ------------------ *)
Returned == g_pc = "returned"
callerMin == Get(g_params, "min_price", 0)
callerMax == Get(g_params, "max_price", 99999)
N == Get(g_params, "count", 1)

\* C7: every returned record has callerMin <= price <= callerMax and
\* categoryMin <= price <= categoryMax for its category and route.
C7_PriceWithinBounds ==
    Returned =>
        \A i \in 1..Len(g_result) :
            LET f == g_result[i]
                range == TypePriceRange(f.from, f.to, f.type)
            IN  /\ callerMin <= f.price /\ f.price <= callerMax
                /\ range[1] <= f.price /\ f.price <= range[2]

\* C8: the price of every generated and of every returned record is a
\* multiple of 100.
C8_PriceMultipleOf100 ==
    /\ \A i \in 1..Len(generated_flights) : generated_flights[i].price % 100 = 0
    /\ Returned => \A i \in 1..Len(g_result) : g_result[i].price % 100 = 0

\* C8 witness: a record was returned for caller bounds that contain no
\* multiple of 100, so the draw itself was none
C8_Witness ==
    /\ Returned
    /\ Len(g_result) >= 1
    /\ \A r \in callerMin..callerMax : r % 100 # 0

\* C9: a call returns at most N records, and fewer than N exactly when an
\* iteration had an empty price intersection.
C9_Cardinality ==
    Returned =>
        /\ Len(g_result) <= N
        /\ Len(g_result) < N <=> g_empty >= 1

\* C9 amended: the same for a call that has from, to and date; a call that
\* lacks one of them runs no iteration and returns the empty list.
C9_CardinalityWithBasics ==
    Returned =>
        /\ Len(g_result) <= N
        /\ IF MissingBasics(g_params)
           THEN Len(g_result) = 0 /\ g_i = 0
           ELSE /\ g_i = N
                /\ Len(g_result) = N - g_empty
                /\ Len(g_result) < N <=> g_empty >= 1

\* C9 witness: a call returned some records but fewer than N, after an
\* iteration with an empty intersection
C9_Witness ==
    /\ Returned
    /\ ~MissingBasics(g_params)
    /\ 0 < Len(g_result) /\ Len(g_result) < N
    /\ g_empty >= 1

\* C10: the returned sequence is non-decreasing by price.
C10_SortedByPrice ==
    Returned =>
        \A i, j \in 1..Len(g_result) :
            i < j => g_result[i].price <= g_result[j].price

\* C10 witness: the call returned after generating a dearer record before a
\* cheaper one
C10_Witness ==
    /\ Returned
    /\ \E i, j \in 1..Len(generated_flights) :
        i < j /\ generated_flights[i].price > generated_flights[j].price

\* C11: no two records returned by one call carry the same flight code
\* (airline code and number).
C11_UniqueFlightNumbers ==
    Returned =>
        \A i, j \in 1..Len(g_result) :
            i # j => g_result[i].flight # g_result[j].flight

(* --------------------------- request outcomes -------------------------- *)
\* C12: the step that ends a request leaves exactly one of four responses:
\* 401 without records exactly for an unknown token, 429 without records
\* exactly when the quota test found the count at the limit, 400 without
\* records exactly for an admitted request with an unparsable price bound,
\* and 200 with a list of records otherwise; only a 200 response carries
\* records and only an admitted request gets one.
C12_FourOutcomes ==
    [][\A th \in Threads :
          (pc[th] # "done" /\ pc'[th] = "done") =>
              LET r == response'[th]
                  token == request'[th].token
                  args == request'[th].args
              IN  /\ r.status \in {401, 429, 400, 200}
                  /\ r.status = 401 <=> token \notin DOMAIN users
                  /\ r.status = 429 <=>
                        /\ pc[th] = "check"
                        /\ RATE_LIMIT[key[th]] >= limit[th]
                  /\ r.status \in {400, 200} <=>
                        /\ pc[th] = "flights"
                        /\ token \in DOMAIN users
                        /\ RATE_LIMIT[key[th]] >= 1
                        /\ admitted'[key[th]] = Count(admitted, key[th]) + 1
                  /\ r.status = 400 => Malformed(args)
                  /\ r.status = 200 => ~Malformed(args)
                  /\ IF r.status = 200
                     THEN DOMAIN r.flights = 1..Len(r.flights)
                     ELSE r.flights = None]_vars

\* C12 witness: one request is answered 429 while another one is answered
\* 200 with records
C12_Witness ==
    \E th, other \in Threads :
        /\ pc[th] = "done" /\ response[th].status = 429
        /\ pc[other] = "done" /\ response[other].status = 200
        /\ Len(response[other].flights) >= 1

(* ------------------------- tiers of the callers ------------------------ *)
\* the users files register.py can have written for the two registered
\* tokens: every token at one of the three permission levels
TierFiles == [DOMAIN InitUsers -> {"free", "plus", "pro"}]

InitTiers ==
    /\ users \in TierFiles
    /\ RATE_LIMIT = EmptyMap
    /\ now = 0
    /\ pc = [th \in Threads |-> "idle"]
    /\ request = [th \in Threads |-> NoRequest]
    /\ limit = [th \in Threads |-> 0]
    /\ key = [th \in Threads |-> None]
    /\ tmp = [th \in Threads |-> 0]
    /\ response = [th \in Threads |-> None]
    /\ sent = [t \in DOMAIN InitUsers |-> 0]
    /\ admitted = EmptyMap
    /\ rejected = EmptyMap
    /\ InitGenIdle
    /\ InitHarnessIdle
    /\ InitPollIdle
    /\ InitRegisterIdle

\* one request at a time against any of these files, within one window
NextTiers ==
    \/ \E th \in Threads, token \in Tokens, args \in Args :
            AllIdle /\ Receive(th, token, args)
    \/ \E th \in Threads : SetDefault(th)
    \/ \E th \in Threads : Check(th)
    \/ \E th \in Threads : IncrLoad(th)
    \/ \E th \in Threads : IncrStore(th)
    \/ \E th \in Threads : Flights(th)
    \/ \E th \in Threads : Return(th)

SpecTiers == InitTiers /\ [][NextTiers]_vars

\* C13: a 200 response holds at most 1 record for a free caller, at most 2
\* for a plus caller and at most 3 for a pro caller, and exactly that many
\* when the price bounds of the request lie inside the category's range.
C13_DensityOfTier ==
    \A th \in Threads :
        (pc[th] = "done" /\ response[th].status = 200) =>
            LET tier == users[request[th].token]
                density == CASE tier = "free" -> 1
                             [] tier = "plus" -> 2
                             [] tier = "pro"  -> 3
            IN  /\ Len(response[th].flights) <= density
                /\ request[th].args = GoodArgs => Len(response[th].flights) = density

\* C13 witness: a pro caller has been answered with three records
C13_Witness ==
    \E th \in Threads :
        /\ pc[th] = "done"
        /\ response[th].status = 200
        /\ users[request[th].token] = "pro"
        /\ Len(response[th].flights) = 3

(* ------------------- register.py: upgrade_permission ------------------- *)
\* register.py lines 225-230, the benefit table: requests per minute and
\* flights per query of a permission level
TierLimit(level) ==
    CASE level = "free" -> 15
      [] level = "plus" -> 25
      [] level = "pro"  -> 100
TierDensity(level) ==
    CASE level = "free" -> 1
      [] level = "plus" -> 2
      [] level = "pro"  -> 3

\* an upgrade that also starts the counts of its token afresh
upgrade_permissionResetsCount(token, new_level) ==
    /\ token \in DOMAIN users
    /\ \/ users[token] = "free" /\ new_level \in {"plus", "pro"}
       \/ users[token] = "plus" /\ new_level = "pro"
    /\ users' = [users EXCEPT ![token] = new_level]
    /\ RATE_LIMIT' = [k \in DOMAIN RATE_LIMIT |->
                         IF k[1] = token THEN 0 ELSE RATE_LIMIT[k]]
    /\ UNCHANGED <<now, pc, request, limit, key, tmp, response,
                   sent, admitted, rejected, gen_vars, harness_vars, poll_vars, register_vars>>

\* register.py lines 235-283: the logged-in user of token confirms the
\* upgrade to new_level; users.json is loaded, the level of the record with
\* that token is replaced and the list is saved
upgrade_permission(token, new_level) ==
    /\ token \in DOMAIN users
    /\ \/ users[token] = "free" /\ new_level \in {"plus", "pro"}
       \/ users[token] = "plus" /\ new_level = "pro"
    /\ users' = [users EXCEPT ![token] = new_level]
    /\ UNCHANGED <<RATE_LIMIT, now, pc, request, limit, key, tmp, response,
                   sent, admitted, rejected, gen_vars, harness_vars, poll_vars, register_vars>>

\* the server handles one request at a time while users upgrade
NextUpgrade ==
    \/ NextTiers
    \/ \E token \in Tokens, new_level \in {"plus", "pro"} :
            upgrade_permission(token, new_level)

SpecUpgrade == Init /\ [][NextUpgrade]_vars

\* C14: every request is decided with the limit, and answered with the
\* density, of the level its token had when the server started.
C14_PolicyFixedAtStart ==
    \A th \in Threads :
        /\ pc[th] \in {"setdefault", "check", "incr_load", "incr_store", "flights"}
              => limit[th] = TierLimit(InitUsers[request[th].token])
        /\ (pc[th] = "done" /\ response[th].status = 200
              /\ request[th].args = GoodArgs)
              => Len(response[th].flights) = TierDensity(InitUsers[request[th].token])

\* C14 amended: the limit a request is decided with is the one of the level
\* users.json holds for its token when the request arrives, the number of
\* records of its 200 response is bounded by the density of the level
\* users.json holds when flights runs, and no step of a handler writes
\* users.json.
C14_PolicyFollowsStore ==
    [][\A th \in Threads :
          /\ (pc[th] = "idle" /\ pc'[th] = "setdefault")
                => limit'[th] = TierLimit(users[request'[th].token])
          /\ (pc[th] = "flights" /\ pc'[th] = "done" /\ response'[th].status = 200)
                => LET density == TierDensity(users[request[th].token])
                   IN  /\ Len(response'[th].flights) <= density
                       /\ request[th].args = GoodArgs
                             => Len(response'[th].flights) = density
          /\ pc'[th] # pc[th] => users' = users]_vars

\* C14 witness: tokA, free when the server started, was upgraded to plus and
\* a later request of it is decided with limit 25 and answered with two
\* records
C14_Witness ==
    \E th \in Threads :
        /\ pc[th] = "done"
        /\ request[th].token = "tokA"
        /\ InitUsers["tokA"] = "free" /\ users["tokA"] = "plus"
        /\ limit[th] = 25
        /\ response[th].status = 200
        /\ Len(response[th].flights) = 2

(* ------------------ a missing or malformed users.json ------------------ *)
\* register.py lines 38-42 and whatever else writes data/users.json: the
\* file is replaced; open(.., 'w') leaves it empty, which is no JSON, until
\* json.dump has written the list
StoreChanges(file) ==
    /\ users # file
    /\ users' = file
    /\ UNCHANGED <<RATE_LIMIT, now, pc, request, limit, key, tmp, response,
                   sent, admitted, rejected, gen_vars, harness_vars, poll_vars, register_vars>>

\* the server handles one request at a time while the file changes
NextStore ==
    \/ NextTiers
    \/ \E file \in BrokenFiles \cup {InitUsers} : StoreChanges(file)

SpecStore == Init /\ [][NextStore]_vars

\* C15: a request that arrives while users.json is absent, is no JSON or
\* holds a record without a token is answered, in its first step, with the
\* 401 response of an unknown token, and that step changes no counter.
C15_BrokenStoreIsUnknown ==
    [][\A th \in Threads :
          (pc[th] = "idle" /\ pc'[th] # "idle" /\ users \in BrokenFiles)
              => /\ pc'[th] = "done"
                 /\ response'[th] = [status |-> 401, flights |-> None]
                 /\ RATE_LIMIT' = RATE_LIMIT
                 /\ admitted' = admitted
                 /\ rejected' = rejected]_vars

\* C15 witness: a token that was admitted while users.json listed it is
\* answered 401 with its counter in place, while the file holds a record without a token
C15_Witness ==
    \E th \in Threads :
        /\ pc[th] = "done"
        /\ request[th].token = "tokA"
        /\ response[th].status = 401
        /\ users = FileTokenlessRecord
        /\ Count(RATE_LIMIT, <<"tokA", 0>>) >= 1

(* ============ src/cli/simulate_abuse.py: the abuse simulator ============ *)
\* number of sleeps of one loop until time.time() reaches end_time
\* (duration / interval)
MaxIterations == 2

\* self.users: the pool loaded from users.json
PoolUsers == <<"tokA", "tokB">>

\* line 192: tokens_to_use
tokens_to_use == IF Len(pool) < 5 THEN Len(pool) ELSE 5

\* the threads of the ThreadPoolExecutor, in the order of submission
PoolThreads == <<"w1", "w2", "w3", "w4", "w5">>

\* lines 195-199: the worker submitted for users[i] runs on PoolThreads[i]
PoolIndex(w) == CHOOSE i \in 1..Len(PoolThreads) : PoolThreads[i] = w
Submitted(w) == w # "main" /\ PoolIndex(w) <= tokens_to_use

\* what requests.get does: it returns the response of the server, whose
\* status is one of those api_server.py and Flask answer with, or it raises
\* a RequestException (connection refused, timeout after 5 seconds)
Replies ==
    { [raised |-> FALSE, status_code |-> c] : c \in {200, 429, 401, 400, 500} }
        \cup { [raised |-> TRUE, status_code |-> 0] }

\* line 103: f"ERROR_{response.status_code}"
ErrorStatus(status_code) ==
    CASE status_code = 400 -> "ERROR_400"
      [] status_code = 500 -> "ERROR_500"

\* lines 91-106: the status make_request returns
StatusOf(reply) ==
    IF reply.raised THEN "CONNECTION_ERROR"
    ELSE IF reply.status_code = 200 THEN "SUCCESS"
    ELSE IF reply.status_code = 429 THEN "RATE_LIMITED"
    ELSE IF reply.status_code = 401 THEN "AUTH_FAILED"
    ELSE ErrorStatus(reply.status_code)

\* a classification that counts a 429 answer as a failure
CounterOfBlockedAsFailed(reply) ==
    IF reply.raised THEN "failed"
    ELSE IF reply.status_code = 200 THEN "successful"
    ELSE "failed"

\* lines 91-106: the counter make_request increments
CounterOf(reply) ==
    IF reply.raised THEN "failed"
    ELSE IF reply.status_code = 200 THEN "successful"
    ELSE IF reply.status_code = 429 THEN "blocked"
    ELSE "failed"

\* a loop that goes on until its end_time whatever self.running is
LoopTestUntilEndTime(w) ==
    /\ w_pc[w] = "test"
    /\ IF time_left[w] > 0
       THEN /\ w_pc' = [w_pc EXCEPT ![w] = "request"]
            /\ \E i \in 1..Len(pool) :
                  w_token' = IF phase = "normal"
                             THEN [w_token EXCEPT ![w] = pool[i]]
                             ELSE w_token
       ELSE /\ w_pc' = [w_pc EXCEPT ![w] = "left"]
            /\ UNCHANGED w_token
    /\ UNCHANGED <<pool, scenario, running, phase, time_left, total_requests,
                   successful_requests, failed_requests, blocked_requests,
                   last_status, calls, log_lines, printed, frame,
                   server_vars, gen_vars, poll_vars, register_vars>>

\* lines 137, 160, 178: the test of the while loop
LoopTest(w) ==
    /\ w_pc[w] = "test"
    /\ IF running /\ time_left[w] > 0
       THEN /\ w_pc' = [w_pc EXCEPT ![w] = "request"]
            /\ \E i \in 1..Len(pool) :
                  \* line 138: normal usage draws the user of every request
                  w_token' = IF phase = "normal"
                             THEN [w_token EXCEPT ![w] = pool[i]]
                             ELSE w_token
       ELSE /\ w_pc' = [w_pc EXCEPT ![w] = "left"]
            /\ UNCHANGED w_token
    /\ UNCHANGED <<pool, scenario, running, phase, time_left, total_requests,
                   successful_requests, failed_requests, blocked_requests,
                   last_status, calls, log_lines, printed, frame,
                   server_vars, gen_vars, poll_vars, register_vars>>

\* a make_request without the timeout of line 87: a call whose transport
\* fails never returns
MakeRequestNoTimeout(w, reply) ==
    /\ w_pc[w] = "request"
    /\ calls' = calls + 1
    /\ total_requests' = IF reply.raised THEN total_requests
                         ELSE total_requests + 1
    /\ successful_requests' = IF CounterOf(reply) = "successful"
                              THEN successful_requests + 1
                              ELSE successful_requests
    /\ blocked_requests' = IF CounterOf(reply) = "blocked"
                           THEN blocked_requests + 1
                           ELSE blocked_requests
    /\ failed_requests' = IF CounterOf(reply) = "failed" /\ ~reply.raised
                          THEN failed_requests + 1
                          ELSE failed_requests
    /\ last_status' = IF reply.raised THEN last_status
                      ELSE [last_status EXCEPT ![w] = StatusOf(reply)]
    /\ log_lines' = IF reply.raised THEN log_lines ELSE log_lines + 1
    /\ w_pc' = [w_pc EXCEPT ![w] = IF reply.raised THEN "hung" ELSE "sleep"]
    /\ UNCHANGED <<pool, scenario, running, phase, w_token, time_left, printed,
                   frame,
                   server_vars, gen_vars, poll_vars, register_vars>>

\* lines 142-145, 162-165, 180-183: make_request (lines 81-106), write_log
\* and the print of one iteration
MakeRequest(w, reply) ==
    /\ w_pc[w] = "request"
    /\ calls' = calls + 1
    /\ total_requests' = IF reply.raised THEN total_requests
                         ELSE total_requests + 1
    /\ successful_requests' = IF CounterOf(reply) = "successful"
                              THEN successful_requests + 1
                              ELSE successful_requests
    /\ blocked_requests' = IF CounterOf(reply) = "blocked"
                           THEN blocked_requests + 1
                           ELSE blocked_requests
    /\ failed_requests' = IF CounterOf(reply) = "failed"
                          THEN failed_requests + 1
                          ELSE failed_requests
    /\ last_status' = [last_status EXCEPT ![w] = StatusOf(reply)]
    /\ log_lines' = log_lines + 1
    /\ w_pc' = [w_pc EXCEPT ![w] = "sleep"]
    /\ UNCHANGED <<pool, scenario, running, phase, w_token, time_left, printed,
                   frame,
                   server_vars, gen_vars, poll_vars, register_vars>>

\* a loop that sends the request again, without a new loop test, when its
\* outcome was not SUCCESS
SleepRetriesFailures(w) ==
    /\ w_pc[w] = "sleep"
    /\ time_left' = IF running THEN [time_left EXCEPT ![w] = @ - 1] ELSE time_left
    /\ w_pc' = [w_pc EXCEPT ![w] = IF last_status[w] # "SUCCESS" /\ time_left[w] > 1
                                   THEN "request" ELSE "test"]
    /\ UNCHANGED <<pool, scenario, running, phase, w_token, total_requests,
                   successful_requests, failed_requests, blocked_requests,
                   last_status, calls, log_lines, printed, frame,
                   server_vars, gen_vars, poll_vars, register_vars>>

\* a loop body that sleeps whether or not the simulator is still running
SleepAlways(w) ==
    /\ w_pc[w] = "sleep"
    /\ time_left' = [time_left EXCEPT ![w] = @ - 1]
    /\ w_pc' = [w_pc EXCEPT ![w] = "test"]
    /\ UNCHANGED <<pool, scenario, running, phase, w_token, total_requests,
                   successful_requests, failed_requests, blocked_requests,
                   last_status, calls, log_lines, printed, frame,
                   server_vars, gen_vars, poll_vars, register_vars>>

\* lines 147-148, 167-168, 185-186: if self.running: time.sleep(interval)
Sleep(w) ==
    /\ w_pc[w] = "sleep"
    /\ time_left' = IF running THEN [time_left EXCEPT ![w] = @ - 1] ELSE time_left
    /\ w_pc' = [w_pc EXCEPT ![w] = "test"]
    /\ UNCHANGED <<pool, scenario, running, phase, w_token, total_requests,
                   successful_requests, failed_requests, blocked_requests,
                   last_status, calls, log_lines, printed, frame,
                   server_vars, gen_vars, poll_vars, register_vars>>

\* a handler that ends the process at once, as the default disposition of
\* SIGINT and SIGTERM would
signal_handlerKills ==
    /\ phase \notin {"off", "exited"}
    /\ running
    /\ running' = FALSE
    /\ phase' = "exited"
    /\ UNCHANGED <<pool, scenario, w_pc, w_token, time_left, total_requests,
                   successful_requests, failed_requests, blocked_requests,
                   last_status, calls, log_lines, printed, frame,
                   server_vars, gen_vars, poll_vars, register_vars>>

\* lines 48-51: SIGINT or SIGTERM is delivered to the running simulator
signal_handler ==
    /\ phase \notin {"off", "exited"}
    /\ running
    /\ running' = FALSE
    /\ UNCHANGED <<pool, scenario, phase, w_pc, w_token, time_left, total_requests,
                   successful_requests, failed_requests, blocked_requests,
                   last_status, calls, log_lines, printed, frame,
                   server_vars, gen_vars, poll_vars, register_vars>>

\* lines 226-238: run_scenario after the loop, or the loops, it waits for
\* have been left
ScenarioContinues ==
    /\ \/ /\ phase = "normal" /\ w_pc["main"] = "left"
          /\ IF scenario = "mixed" /\ running
             THEN \* lines 236-237: the pause, time.sleep(5), begins
                  /\ phase' = "pause"
                  /\ w_pc' = [w_pc EXCEPT !["main"] = "off"]
                  /\ UNCHANGED <<time_left, w_token>>
             ELSE /\ phase' = "report"
                  /\ w_pc' = [w_pc EXCEPT !["main"] = "off"]
                  /\ UNCHANGED <<time_left, w_token>>
       \/ /\ phase = "burst" /\ w_pc["main"] = "left"
          /\ phase' = "report"
          /\ w_pc' = [w_pc EXCEPT !["main"] = "off"]
          /\ UNCHANGED <<time_left, w_token>>
       \/ \* lines 202-203: future.result() of every worker
          /\ phase = "distributed"
          /\ \A i \in 1..tokens_to_use : w_pc[PoolThreads[i]] = "left"
          /\ phase' = "report"
          /\ w_pc' = [w \in LoopThreads |-> "off"]
          /\ UNCHANGED <<time_left, w_token>>
    /\ UNCHANGED <<pool, scenario, running, total_requests, successful_requests,
                   failed_requests, blocked_requests, last_status, calls,
                   log_lines, printed, frame,
                   server_vars, gen_vars, poll_vars, register_vars>>

\* lines 237-238 and 155-160: the pause is over and simulate_burst_attack
\* draws its token and comes to the first test of its loop
PauseEnds ==
    /\ phase = "pause"
    /\ phase' = "burst"
    /\ w_pc' = [w_pc EXCEPT !["main"] = "test"]
    /\ time_left' = [time_left EXCEPT !["main"] = MaxIterations]
    /\ \E i \in 1..Len(pool) :
          w_token' = [w_token EXCEPT !["main"] = pool[i]]
    /\ UNCHANGED <<pool, scenario, running, total_requests, successful_requests,
                   failed_requests, blocked_requests, last_status, calls,
                   log_lines, printed, frame,
                   server_vars, gen_vars, poll_vars, register_vars>>

\* lines 240-242: run_scenario prints the statistics
Report ==
    /\ phase = "report"
    /\ printed' = printed + 1
    /\ phase' = "finally"
    /\ UNCHANGED <<pool, scenario, running, w_pc, w_token, time_left, total_requests,
                   successful_requests, failed_requests, blocked_requests,
                   last_status, calls, log_lines, frame,
                   server_vars, gen_vars, poll_vars, register_vars>>

\* lines 286-287: the finally clause of main prints them again, and the
\* process ends
Finally ==
    /\ phase = "finally"
    /\ printed' = printed + 1
    /\ phase' = "exited"
    /\ UNCHANGED <<pool, scenario, running, w_pc, w_token, time_left, total_requests,
                   successful_requests, failed_requests, blocked_requests,
                   last_status, calls, log_lines, frame,
                   server_vars, gen_vars, poll_vars, register_vars>>

Scenarios == {"normal", "burst", "distributed", "mixed"}

\* lines 22-37 and the start of run_scenario: the simulator has been
\* constructed and the loop, or the loops, of its scenario are about to
\* run their first test
InitHarness ==
    /\ InitServer
    /\ InitGenIdle
    /\ InitPollIdle
    /\ InitRegisterIdle
    /\ pool = PoolUsers
    /\ scenario \in Scenarios
    /\ running = TRUE
    /\ phase = IF scenario = "mixed" THEN "normal" ELSE scenario
    /\ w_pc = [w \in LoopThreads |->
                 IF scenario = "distributed"
                 THEN IF Submitted(w) THEN "test" ELSE "off"
                 ELSE IF w = "main" THEN "test" ELSE "off"]
    /\ \E i \in 1..Len(pool) :
          w_token = [w \in LoopThreads |->
                       IF scenario = "distributed"
                       THEN IF Submitted(w) THEN pool[PoolIndex(w)] ELSE None
                       ELSE IF w = "main" /\ scenario = "burst"
                            THEN pool[i] ELSE None]
    /\ time_left = [w \in LoopThreads |-> IF w_pc[w] = "test" THEN MaxIterations ELSE 0]
    /\ total_requests = 0
    /\ successful_requests = 0
    /\ failed_requests = 0
    /\ blocked_requests = 0
    /\ last_status = [w \in LoopThreads |-> None]
    /\ calls = 0
    /\ log_lines = 0
    /\ printed = 0
    /\ frame = InitFrame

NextHarness ==
    \/ \E w \in LoopThreads : LoopTest(w)
    \/ \E w \in LoopThreads, reply \in Replies : MakeRequest(w, reply)
    \/ \E w \in LoopThreads : Sleep(w)
    \/ signal_handler
    \/ ScenarioContinues
    \/ PauseEnds
    \/ Report
    \/ Finally

SpecHarness == InitHarness /\ [][NextHarness]_vars

\* every thread of the simulator keeps being scheduled and requests.get
\* returns or raises within its timeout; nothing obliges a signal to arrive
FairHarness ==
    /\ \A w \in LoopThreads :
          /\ WF_vars(LoopTest(w))
          /\ WF_vars(\E reply \in Replies : MakeRequest(w, reply))
          /\ WF_vars(Sleep(w))
    /\ WF_vars(ScenarioContinues)
    /\ WF_vars(PauseEnds)
    /\ WF_vars(Report)
    /\ WF_vars(Finally)

SpecHarnessFair == InitHarness /\ [][NextHarness]_vars /\ FairHarness

(* --------------------------- simulator claims -------------------------- *)
\* C16: in a scenario that runs one loop at a time, total_requests is the
\* number of calls of make_request made so far and equals
\* successful_requests + failed_requests + blocked_requests.
C16_TotalsAddUp ==
    scenario \in {"normal", "burst", "mixed"} =>
        /\ total_requests = calls
        /\ total_requests = successful_requests + failed_requests + blocked_requests

\* C17: every call of make_request returns one status and increments
\* exactly one of successful_requests, failed_requests and blocked_requests
\* by one: successful_requests for SUCCESS, blocked_requests for
\* RATE_LIMITED, failed_requests for every other status; no other step
\* changes these counters.
C17_ExactlyOneCounter ==
    [][LET ds == successful_requests' - successful_requests
           df == failed_requests' - failed_requests
           db == blocked_requests' - blocked_requests
       IN  IF calls' = calls + 1
           THEN /\ {ds, df, db} = {0, 1}
                /\ ds + df + db = 1
                /\ \E w \in LoopThreads :
                      /\ w_pc[w] = "request" /\ w_pc'[w] = "sleep"
                      /\ last_status'[w] \in
                            {"SUCCESS", "RATE_LIMITED", "AUTH_FAILED",
                             "ERROR_400", "ERROR_500", "CONNECTION_ERROR"}
                      /\ ds = 1 <=> last_status'[w] = "SUCCESS"
                      /\ db = 1 <=> last_status'[w] = "RATE_LIMITED"
                      /\ df = 1 <=> last_status'[w] \notin {"SUCCESS", "RATE_LIMITED"}
           ELSE ds = 0 /\ df = 0 /\ db = 0]_vars

\* C17 witness: calls have been counted in each of the three counters, the
\* last one after requests.get raised
C17_Witness ==
    /\ successful_requests >= 1
    /\ blocked_requests >= 1
    /\ failed_requests >= 1
    /\ \E w \in LoopThreads : last_status[w] = "CONNECTION_ERROR"

\* C18: once SIGINT or SIGTERM has been delivered, the simulator is
\* eventually at its exit with every loop left and the statistics printed.
C18_GracefulShutdown ==
    (phase # "off" /\ ~running) ~>
        (/\ phase = "exited"
         /\ printed >= 1
         /\ \A w \in LoopThreads : w_pc[w] \in {"off", "left"})

\* C18 witness: the simulator has exited with its statistics printed after
\* a signal ended a loop that had made requests and still had time to run
C18_Witness ==
    /\ phase = "exited"
    /\ ~running
    /\ printed >= 1
    /\ calls >= 1
    /\ \E w \in LoopThreads : time_left[w] > 0

(* ----------------- category and price table resolution ----------------- *)
\* C19: the category of every generated record is the one the cabin label
\* of the request maps to when the request names a cabin label, else the
\* request's type when that is promo, normal or peak, else one of the three
\* categories.
C19_CategoryResolution ==
    \A i \in 1..Len(generated_flights) :
        LET req_type == Get(g_params, "type", None)
            ticket_type == generated_flights[i].type
        IN  /\ req_type = "economy" => ticket_type = "normal"
            /\ req_type = "economy_promo" => ticket_type = "promo"
            /\ req_type \in {"business", "first"} => ticket_type = "peak"
            /\ req_type \in {"promo", "normal", "peak"} => ticket_type = req_type
            /\ ticket_type \in {"promo", "normal", "peak"}

\* C19 witness: a call without a type returned records of two categories,
\* drawn in different iterations
C19_Witness ==
    /\ Returned
    /\ "type" \notin DOMAIN g_params
    /\ \E i, j \in 1..Len(g_result) : g_result[i].type # g_result[j].type

\* C20: the prices of a call come from the table of its route when
\* PRICE_CATEGORIES has the route and from DEFAULT_PRICE_RANGES when it
\* has not: every record's price lies in that table's range of its
\* category, and a call whose type fixes the category returns N records
\* when that range meets the caller's bounds and none when it does not.
C20_RouteTable ==
    (Returned /\ ~MissingBasics(g_params)) =>
        LET route == <<g_params["from"], g_params["to"]>>
            table == IF route \in DOMAIN PRICE_CATEGORIES
                     THEN PRICE_CATEGORIES[route]
                     ELSE DEFAULT_PRICE_RANGES
            req_type == Get(g_params, "type", None)
            fixed == CASE req_type \in {"promo", "normal", "peak"} -> {req_type}
                       [] req_type = "economy" -> {"normal"}
                       [] req_type = "business" -> {"peak"}
                       [] OTHER -> {}
        IN  /\ \A i \in 1..Len(g_result) :
                  /\ table[g_result[i].type][1] <= g_result[i].price
                  /\ g_result[i].price <= table[g_result[i].type][2]
            /\ \A c \in fixed :
                  Len(g_result) =
                      IF Max2(callerMin, table[c][1]) <= Min2(callerMax, table[c][2])
                      THEN N ELSE 0

\* C20 witness: a call for a route that PRICE_CATEGORIES does not have
\* returned a record cheaper than every price of the routes it has
C20_Witness ==
    /\ Returned
    /\ ~MissingBasics(g_params)
    /\ <<g_params["from"], g_params["to"]>> \notin DOMAIN PRICE_CATEGORIES
    /\ \E i \in 1..Len(g_result) : g_result[i].price < 3000

(* ------------------------ empty price intersection ---------------------- *)
\* C21: an iteration whose price intersection is empty appends nothing and
\* every other iteration appends one record, the loop never runs more than
\* N iterations, and the call returns the list it has, however short. With
\* caller bounds [9000, 9500] on TPE->NRT a promo request returns the empty
\* list, and every record that is returned is of category normal and
\* priced within [9000, 9500].
C21_EmptyIntersectionSkipped ==
    g_pc \in {"loop", "returned"} =>
        /\ Len(generated_flights) = g_i - g_empty
        /\ g_i <= N
        /\ Returned => Len(g_result) = Len(generated_flights)
        /\ (/\ ~MissingBasics(g_params)
            /\ g_params["to"] = "NRT"
            /\ callerMin = 9000 /\ callerMax = 9500)
              => /\ \A i \in 1..Len(generated_flights) :
                       /\ generated_flights[i].type = "normal"
                       /\ generated_flights[i].price \in 9000..9500
                 /\ (Returned /\ Get(g_params, "type", None) = "promo")
                       => (g_result = << >> /\ g_empty = N)
                 /\ (Returned /\ Get(g_params, "type", None) = "economy")
                       => Len(g_result) = N

\* C21 witness: a call with bounds [9000, 9500] on TPE->NRT and no type
\* returned a single normal record after an iteration that resolved another
\* category came out empty
C21_Witness ==
    /\ Returned
    /\ ~MissingBasics(g_params)
    /\ g_params["to"] = "NRT"
    /\ callerMin = 9000 /\ callerMax = 9500
    /\ "type" \notin DOMAIN g_params
    /\ N = 2 /\ g_empty = 1
    /\ Len(g_result) = 1

(* ------------------------------ windows -------------------------------- *)
\* C22: a request is counted under the key of its token and of the window
\* index floor(now / 60) of its arrival; with one request at a time, the
\* first request of a token in a window finds the count 0 and is admitted,
\* and a request is admitted exactly when fewer requests of its token than
\* its limit were admitted in that same window, whatever earlier windows
\* hold.
C22_FixedWindowReset ==
    [][\A th \in Threads :
          /\ (pc[th] = "idle" /\ pc'[th] = "setdefault")
                => key'[th] = <<request'[th].token, now \div 60>>
          /\ (pc[th] = "check" /\ pc'[th] # "check")
                => LET k == key[th]
                       lim == IF users[k[1]] = "plus" THEN 25 ELSE 15
                   IN  /\ (Count(admitted, k) + Count(rejected, k) = 0)
                             => (RATE_LIMIT[k] = 0 /\ pc'[th] = "incr_load")
                       /\ pc'[th] = "incr_load" <=> Count(admitted, k) < lim]_vars

\* C22 witness: tokA was admitted in window 1 after it had used up its 15
\* admissions of window 0 and had been answered 429 there
C22_Witness ==
    /\ Count(admitted, <<"tokA", 0>>) = 15
    /\ Count(rejected, <<"tokA", 0>>) >= 1
    /\ Count(admitted, <<"tokA", 1>>) >= 1
    /\ Count(RATE_LIMIT, <<"tokA", 0>>) = 15

\* C23: no step removes an entry of the counter store or lowers a stored
\* count, and an entry is created only by the setdefault of a request whose
\* token is known, with the count 0.
C23_StoreOnlyGrows ==
    [][/\ \A k \in DOMAIN RATE_LIMIT :
             k \in DOMAIN RATE_LIMIT' /\ RATE_LIMIT'[k] >= RATE_LIMIT[k]
       /\ \A k \in DOMAIN RATE_LIMIT' \ DOMAIN RATE_LIMIT :
             /\ RATE_LIMIT'[k] = 0
             /\ k[1] \in DOMAIN users
             /\ \E th \in Threads :
                   pc[th] = "setdefault" /\ pc'[th] = "check" /\ key[th] = k]_vars

(* ========== src/ticket-checker.py: the polling FlightChecker =========== *)
\* the users files of the client's runs: the client logs in with tokA,
\* which is at any of the three permission levels
PollFiles == { [InitUsers EXCEPT !["tokA"] = level] : level \in {"free", "plus", "pro"} }

\* lines 611-612: interval_map.get(self.permission_level, 6)
PollInterval(level) ==
    IF level = "pro" THEN 2
    ELSE IF level = "plus" THEN 4
    ELSE 6

\* lines 709-714, called from _search_flexible_dates (line 848) and from
\* _perform_enhanced_query (line 886): the client sends its next request
\* once the answer to the one before has come
PollSend(th) ==
    /\ c_pc \in {"flex", "query"}
    /\ sent["tokA"] = c_sent
    /\ AllIdle
    /\ Receive(th, "tokA", GoodArgs)

\* lines 832-865 and 657-663: the answer has come; the flexible search goes
\* on with its next offset and after offset 3 the monitoring loop starts,
\* the monitoring loop goes to sleep
PollAnswered ==
    /\ c_pc \in {"flex", "query"}
    /\ sent["tokA"] = c_sent + 1
    /\ AllIdle
    /\ c_sent' = c_sent + 1
    /\ IF c_pc = "flex"
       THEN IF c_offset < 3
            THEN c_offset' = c_offset + 1 /\ UNCHANGED c_pc
            ELSE c_pc' = "query" /\ UNCHANGED c_offset
       ELSE c_pc' = "sleep" /\ UNCHANGED c_offset
    /\ UNCHANGED <<c_level, c_flexible, server_vars, gen_vars, harness_vars, register_vars>>

\* line 663: time.sleep(interval); with what the iteration itself takes,
\* the clock has advanced by interval seconds or by one more
PollSleep(extra) ==
    /\ c_pc = "sleep"
    /\ now' = now + PollInterval(c_level) + extra
    /\ c_pc' = "query"
    /\ UNCHANGED <<users, RATE_LIMIT, pc, request, limit, key, tmp, response,
                   sent, admitted, rejected, c_level, c_flexible, c_offset,
                   c_sent, gen_vars, harness_vars, register_vars>>

\* lines 642-654: the duration is over, the user pressed q or a signal
\* cleared self.running
PollStops ==
    /\ c_pc \in {"query", "sleep"}
    /\ sent["tokA"] = c_sent
    /\ c_pc' = "stopped"
    /\ UNCHANGED <<c_level, c_flexible, c_offset, c_sent, server_vars,
                   gen_vars, harness_vars, register_vars>>

\* lines 226-295 and 605-640: the client has logged in with tokA and
\* start_monitoring is about to send its first request
InitPoll ==
    /\ users \in PollFiles
    /\ RATE_LIMIT = EmptyMap
    /\ now = 0
    /\ pc = [th \in Threads |-> "idle"]
    /\ request = [th \in Threads |-> NoRequest]
    /\ limit = [th \in Threads |-> 0]
    /\ key = [th \in Threads |-> None]
    /\ tmp = [th \in Threads |-> 0]
    /\ response = [th \in Threads |-> None]
    /\ sent = [t \in DOMAIN InitUsers |-> 0]
    /\ admitted = EmptyMap
    /\ rejected = EmptyMap
    /\ InitGenIdle
    /\ InitHarnessIdle
    /\ InitRegisterIdle
    /\ c_level = users["tokA"]
    /\ c_flexible \in BOOLEAN
    /\ c_pc = IF c_flexible THEN "flex" ELSE "query"
    /\ c_offset = -3
    /\ c_sent = 0

NextPoll ==
    \/ \E th \in Threads : PollSend(th)
    \/ \E th \in Threads : SetDefault(th)
    \/ \E th \in Threads : Check(th)
    \/ \E th \in Threads : IncrLoad(th)
    \/ \E th \in Threads : IncrStore(th)
    \/ \E th \in Threads : Flights(th)
    \/ \E th \in Threads : Return(th)
    \/ PollAnswered
    \/ \E extra \in {0, 1} : PollSleep(extra)
    \/ PollStops

SpecPoll == InitPoll /\ [][NextPoll]_vars

\* C24: the polling client is never answered 429, and in every window the
\* requests it has sent are at most the limit of its permission level.
C24_PollerUnderLimit ==
    c_pc # "off" =>
        \A k \in DOMAIN admitted \cup DOMAIN rejected :
            k[1] = "tokA" =>
                /\ Count(rejected, k) = 0
                /\ Count(admitted, k) + Count(rejected, k) <= TierLimit(c_level)

(* --------------------- the distributed scenario alone ------------------- *)
\* duration * total_rps: the requests the whole scenario is to send
MaxDistRequests == 10

\* the pools the simulator may have loaded: fewer tokens than 5, and more
DistPools ==
    { <<"tokA">>, PoolUsers, <<"tokA", "tokB", "tokC", "tokD", "tokE", "tokF">> }

\* the answer of a server whose limit the pool has used up
DistReplies == { r \in Replies : r.status_code = 429 }

\* every worker paced at the rate of the whole scenario
DistIterationsUndivided == MaxDistRequests

\* lines 177-178 and 193: rps_per_token = total_rps / tokens_to_use and
\* interval = 1.0 / rps; a worker sleeps duration / interval times until
\* its end_time
DistIterations == MaxDistRequests \div tokens_to_use

InitDist ==
    /\ InitServer
    /\ InitGenIdle
    /\ InitPollIdle
    /\ InitRegisterIdle
    /\ pool \in DistPools
    /\ scenario = "distributed"
    /\ running = TRUE
    /\ phase = "distributed"
    /\ w_pc = [w \in LoopThreads |-> IF Submitted(w) THEN "test" ELSE "off"]
    /\ w_token = [w \in LoopThreads |->
                    IF Submitted(w) THEN pool[PoolIndex(w)] ELSE None]
    /\ time_left = [w \in LoopThreads |-> IF Submitted(w) THEN DistIterations ELSE 0]
    /\ total_requests = 0
    /\ successful_requests = 0
    /\ failed_requests = 0
    /\ blocked_requests = 0
    /\ last_status = [w \in LoopThreads |-> None]
    /\ calls = 0
    /\ log_lines = 0
    /\ printed = 0
    /\ frame = InitFrame

NextDist ==
    \/ \E w \in LoopThreads : LoopTest(w)
    \/ \E w \in LoopThreads, reply \in DistReplies : MakeRequest(w, reply)
    \/ \E w \in LoopThreads : Sleep(w)
    \/ signal_handler
    \/ ScenarioContinues
    \/ Report
    \/ Finally

SpecDist == InitDist /\ [][NextDist]_vars

\* C25: while the distributed scenario runs, the loop threads are exactly
\* K = min(poolSize, 5) pool threads, the i-th of them sends with the token
\* of the i-th pool entry and no other thread does, and a thread has at
\* most its share of 1/K of the scenario's requests still to send, so that
\* all threads together send at most the scenario's total.
C25_DistributedWorkers ==
    phase = "distributed" =>
        LET K == IF Len(pool) < 5 THEN Len(pool) ELSE 5
            workers == {w \in LoopThreads : w_pc[w] # "off"}
        IN  /\ Cardinality(workers) = K
            /\ "main" \notin workers
            /\ \A i \in 1..K :
                  /\ PoolThreads[i] \in workers
                  /\ w_token[PoolThreads[i]] = pool[i]
                  /\ \A w \in workers \ {PoolThreads[i]} : w_token[w] # pool[i]
            /\ \A w \in workers : time_left[w] <= MaxDistRequests \div K
            /\ calls <= MaxDistRequests

\* C25 witness: with a pool of six tokens, five workers have sent all the
\* requests of the scenario
C25_Witness ==
    /\ phase = "distributed"
    /\ Len(pool) = 6
    /\ Cardinality({w \in LoopThreads : w_pc[w] # "off"}) = 5
    /\ calls = 5 * (MaxDistRequests \div 5)

\* C26: in the mixed scenario requests are made only in the sustained phase
\* and in the burst phase, the phases follow one another in the order
\* sustained, pause, burst, no request of the sustained phase is under way
\* when the pause begins, and once a signal has come during the sustained
\* phase or the pause no request of the burst phase is ever made.
C26_MixedPhasesOrdered ==
    [][scenario = "mixed" =>
          /\ calls' = calls + 1 => (phase \in {"normal", "burst"} /\ phase' = phase)
          /\ phase' # phase =>
                <<phase, phase'>> \in
                    { <<"normal", "pause">>, <<"normal", "report">>,
                      <<"pause", "burst">>, <<"burst", "report">>,
                      <<"report", "finally">>, <<"finally", "exited">> }
          /\ phase' = "pause" => w_pc'["main"] = "off"
          \* a signal is never taken back, and the burst loop is entered
          \* only while no signal has come
          /\ ~running => ~running'
          /\ (phase' = "burst" /\ w_pc'["main"] = "request"
                  /\ w_pc["main"] # "request") => running]_vars

\* C26 witness: the burst loop of the mixed scenario has been left without
\* a request, after a signal, while the sustained phase had made requests
C26_Witness ==
    /\ scenario = "mixed"
    /\ phase = "burst"
    /\ ~running
    /\ w_pc["main"] = "left"
    /\ time_left["main"] = MaxIterations
    /\ calls >= 1

\* C27: no retries in the harness: a request is sent only as the step that
\* follows a passed loop test, every request writes exactly one log entry
\* carrying its outcome, nothing else writes to the log, and whatever the
\* outcome the worker goes from the request to the sleep and from the sleep
\* to the next loop test, so that no request is sent twice.
C27_NoRetries ==
    [][/\ calls' = calls + 1 =>
             /\ log_lines' = log_lines + 1
             /\ \E w \in LoopThreads :
                   /\ w_pc[w] = "request" /\ w_pc'[w] = "sleep"
                   /\ last_status'[w] \in {StatusOf(r) : r \in Replies}
                   /\ \A v \in LoopThreads \ {w} :
                         w_pc'[v] = w_pc[v] /\ last_status'[v] = last_status[v]
       /\ log_lines' # log_lines => calls' = calls + 1
       /\ calls' # calls => calls' = calls + 1
       /\ \A w \in LoopThreads :
             /\ (w_pc'[w] = "request" /\ w_pc[w] # "request") =>
                   (w_pc[w] = "test" /\ running /\ time_left[w] > 0)
             /\ (w_pc[w] = "request" /\ w_pc'[w] # "request") =>
                   (w_pc'[w] = "sleep" /\ calls' = calls + 1)
             /\ (w_pc[w] = "sleep" /\ w_pc'[w] # "sleep") => w_pc'[w] = "test"]_vars

\* C27 witness: the first request of the main loop ended RATE_LIMITED, it
\* was logged once, and the loop is at the request of its next iteration
C27_Witness ==
    /\ phase \in {"normal", "burst"}
    /\ last_status["main"] = "RATE_LIMITED"
    /\ w_pc["main"] = "request"
    /\ time_left["main"] = MaxIterations - 1
    /\ calls = 1
    /\ log_lines = 1

\* C28: every scenario reaches its exit with every loop left, so that no
\* call of make_request is still waiting and no worker is still between two
\* attempts, whatever the outcomes of the calls; in particular when every
\* call ends CONNECTION_ERROR.
C28_FailuresDoNotBlock ==
    <>(/\ phase = "exited"
       /\ \A w \in LoopThreads : w_pc[w] \in {"off", "left"})

\* C28 witness: a scenario that no signal interrupted is at its exit, every
\* one of its calls having ended in a transport failure
C28_Witness ==
    /\ phase = "exited"
    /\ running
    /\ calls >= MaxIterations
    /\ failed_requests = calls
    /\ total_requests = 0
    /\ \A w \in LoopThreads :
          w_pc[w] = "left" => last_status[w] = "CONNECTION_ERROR"

\* C29: the time of every record, generated or returned, is five characters
\* HH:MM whose HH is a two-digit hour from 07 to 21 and whose MM is 00 or 30.
C29_TimeOnTheHalfHour ==
    \A fs \in {generated_flights} \cup (IF g_pc = "returned" THEN {g_result} ELSE {}) :
        \A i \in 1..Len(fs) :
            LET t == fs[i].time
            IN  /\ Len(t) = 5
                /\ IsDigit(t[1]) /\ IsDigit(t[2])
                /\ t[3] = ":"
                /\ DigitsValue(SubSeq(t, 1, 2)) \in 7..21
                /\ SubSeq(t, 4, 5) \in {<<"0", "0">>, <<"3", "0">>}

\* C29 witness: a returned list holds a flight at 07:30 and one at 21:00
C29_Witness ==
    /\ g_pc = "returned"
    /\ \E i, j \in 1..Len(g_result) :
          /\ g_result[i].time = <<"0", "7", ":", "3", "0">>
          /\ g_result[j].time = <<"2", "1", ":", "0", "0">>

(* ------- make_request on the worker threads of the distributed ------- *)
(* ------- scenario, one bytecode of its += statements at a time -------- *)
\* The workers of simulate_distributed_attack (lines 176-199) run
\* make_request on the one simulator object without a lock.  Each
\* self.<counter> += 1 loads the attribute, adds one and stores it back, and
\* the interpreter may switch threads between the load and the store.
RaceReplies == { r \in Replies : r.raised \/ r.status_code \in {200, 429} }

\* lines 85-87 and 104: requests.get returns a response or raises
RequestsGet(w, reply) ==
    /\ w_pc[w] = "request"
    /\ calls' = calls + 1
    /\ frame' = [frame EXCEPT ![w] = [response |-> reply, loaded |-> 0]]
    /\ w_pc' = [w_pc EXCEPT ![w] = IF reply.raised THEN "load_class" ELSE "load_total"]
    /\ UNCHANGED <<pool, scenario, running, phase, w_token, time_left, total_requests,
                   successful_requests, failed_requests, blocked_requests,
                   last_status, log_lines, printed, server_vars, gen_vars, poll_vars, register_vars>>

\* line 89: self.total_requests += 1, the load
LoadTotal(w) ==
    /\ w_pc[w] = "load_total"
    /\ frame' = [frame EXCEPT ![w].loaded = total_requests]
    /\ w_pc' = [w_pc EXCEPT ![w] = "store_total"]
    /\ UNCHANGED <<pool, scenario, running, phase, w_token, time_left, total_requests,
                   successful_requests, failed_requests, blocked_requests,
                   last_status, calls, log_lines, printed, server_vars, gen_vars, poll_vars, register_vars>>

\* line 89: self.total_requests += 1, the store
StoreTotal(w) ==
    /\ w_pc[w] = "store_total"
    /\ total_requests' = frame[w].loaded + 1
    /\ w_pc' = [w_pc EXCEPT ![w] = "load_class"]
    /\ UNCHANGED <<pool, scenario, running, phase, w_token, time_left,
                   successful_requests, failed_requests, blocked_requests,
                   last_status, calls, log_lines, printed, frame,
                   server_vars, gen_vars, poll_vars, register_vars>>

\* lines 92, 95, 98, 101, 105: self.<class>_requests += 1, the load
LoadClass(w) ==
    /\ w_pc[w] = "load_class"
    /\ frame' = [frame EXCEPT ![w].loaded =
                    CASE CounterOf(frame[w].response) = "successful" -> successful_requests
                      [] CounterOf(frame[w].response) = "blocked"    -> blocked_requests
                      [] CounterOf(frame[w].response) = "failed"     -> failed_requests]
    /\ w_pc' = [w_pc EXCEPT ![w] = "store_class"]
    /\ UNCHANGED <<pool, scenario, running, phase, w_token, time_left, total_requests,
                   successful_requests, failed_requests, blocked_requests,
                   last_status, calls, log_lines, printed, server_vars, gen_vars, poll_vars, register_vars>>

\* the same lines: the store, then the return of the status and the
\* write_log of the loop body (lines 181-183)
StoreClass(w) ==
    /\ w_pc[w] = "store_class"
    /\ successful_requests' = IF CounterOf(frame[w].response) = "successful"
                              THEN frame[w].loaded + 1 ELSE successful_requests
    /\ blocked_requests' = IF CounterOf(frame[w].response) = "blocked"
                           THEN frame[w].loaded + 1 ELSE blocked_requests
    /\ failed_requests' = IF CounterOf(frame[w].response) = "failed"
                          THEN frame[w].loaded + 1 ELSE failed_requests
    /\ last_status' = [last_status EXCEPT ![w] = StatusOf(frame[w].response)]
    /\ log_lines' = log_lines + 1
    /\ frame' = [frame EXCEPT ![w] = [response |-> NoResponse, loaded |-> 0]]
    /\ w_pc' = [w_pc EXCEPT ![w] = "sleep"]
    /\ UNCHANGED <<pool, scenario, running, phase, w_token, time_left, total_requests,
                   calls, printed, server_vars, gen_vars, poll_vars, register_vars>>

InitRace ==
    /\ InitHarness
    /\ scenario = "distributed"

NextRace ==
    \/ \E w \in LoopThreads : LoopTest(w)
    \/ \E w \in LoopThreads, reply \in RaceReplies : RequestsGet(w, reply)
    \/ \E w \in LoopThreads : LoadTotal(w)
    \/ \E w \in LoopThreads : StoreTotal(w)
    \/ \E w \in LoopThreads : LoadClass(w)
    \/ \E w \in LoopThreads : StoreClass(w)
    \/ \E w \in LoopThreads : Sleep(w)
    \/ signal_handler
    \/ ScenarioContinues
    \/ Report
    \/ Finally

SpecRace == InitRace /\ [][NextRace]_vars

\* C30: once every worker of the distributed scenario has left its loop,
\* successful_requests + failed_requests + blocked_requests is the number
\* of calls of make_request the workers made together.
C30_NoLostUpdate ==
    (/\ scenario = "distributed"
     /\ \A w \in LoopThreads : w_pc[w] \in {"off", "left"})
        => successful_requests + failed_requests + blocked_requests = calls

(* --------- register.py rewrites users.json while requests run --------- *)
\* register.py lines 275-283 and 38-42: upgrade_permission loads the list,
\* replaces the level of the logged-in user and calls save_users, whose
\* open(USERS_FILE_PATH, 'w') truncates the file in place; until json.dump
\* has written the whole list and the file is closed its content is no JSON
SaveUsersOpens(token, new_level) ==
    /\ writing = NoWrite
    /\ token \in DOMAIN users
    /\ \/ users[token] = "free" /\ new_level \in {"plus", "pro"}
       \/ users[token] = "plus" /\ new_level = "pro"
    /\ writing' = [users EXCEPT ![token] = new_level]
    /\ users' = FileInvalidJSON
    /\ UNCHANGED <<RATE_LIMIT, now, pc, request, limit, key, tmp, response,
                   sent, admitted, rejected, gen_vars, harness_vars, poll_vars,
                   user_list, reg_result>>

\* register.py lines 41-42: json.dump has written the list, the file is closed
SaveUsersCloses ==
    /\ writing # NoWrite
    /\ users' = writing
    /\ writing' = NoWrite
    /\ UNCHANGED <<RATE_LIMIT, now, pc, request, limit, key, tmp, response,
                   sent, admitted, rejected, gen_vars, harness_vars, poll_vars,
                   user_list, reg_result>>

\* the server handles one request at a time while register.py saves
NextSave ==
    \/ NextTiers
    \/ \E token \in Tokens, new_level \in {"plus", "pro"} :
            SaveUsersOpens(token, new_level)
    \/ SaveUsersCloses

SpecSave == Init /\ [][NextSave]_vars

\* C31: while register.py only upgrades levels, so that tokA and tokB are in
\* the store before and after every write, no request of tokA or tokB is
\* answered 401.
C31_KnownTokenNeverUnauthorized ==
    \A th \in Threads :
        (pc[th] = "done" /\ request[th].token \in DOMAIN InitUsers)
            => response[th].status # 401

(* ---------------- the two reads of users.json of a request ------------- *)
\* api_server.py lines 27-32 and 174: the density that goes with a limit
DensityOfLimit(l) ==
    CASE l = 15  -> 1
      [] l = 25  -> 2
      [] l = 100 -> 3

\* C32: a 200 response holds no more records than the density of the tier
\* whose limit the request was admitted under.
C32_OneTierPerRequest ==
    \A th \in Threads :
        (pc[th] = "done" /\ response[th].status = 200)
            => Len(response[th].flights) <= DensityOfLimit(limit[th])

C34_ErrorPrecedence ==
    [][\A th \in Threads :
          /\ (pc[th] # "done" /\ pc'[th] = "done") =>
                LET r == response'[th]
                    token == request'[th].token
                IN  /\ token \notin DOMAIN load_user_tokens(users) => r.status = 401
                    /\ r.status = 400 =>
                          /\ token \in DOMAIN load_user_tokens(users)
                          /\ pc[th] = "flights"
                          /\ RATE_LIMIT[key[th]] >= 1
                          /\ Malformed(request'[th].args)
          /\ (pc[th] = "check" /\ pc'[th] # "check"
                 /\ RATE_LIMIT[key[th]] >= limit[th]) =>
                (pc'[th] = "done" /\ response'[th].status = 429)]_vars

\* C34 witness: a request of tokA with an unparsable min_price is answered
\* 429, its count being at the limit
C34_Witness ==
    \E th \in Threads :
        /\ pc[th] = "done"
        /\ request[th].token = "tokA"
        /\ Malformed(request[th].args)
        /\ response[th].status = 429
        /\ RATE_LIMIT[key[th]] >= limit[th]

(* ------------- requests without origin, destination or date ------------ *)
\* query strings that lack from, lack to, or give an empty date
IncompleteArgs ==
    { [k \in DOMAIN GoodArgs \ {"from"} |-> GoodArgs[k]],
      [k \in DOMAIN GoodArgs \ {"to"} |-> GoodArgs[k]],
      [GoodArgs EXCEPT !.date = ""] }

\* one request at a time, complete or not, within one window
NextIncomplete ==
    \/ \E th \in Threads, token \in Tokens, args \in IncompleteArgs \cup {GoodArgs} :
            AllIdle /\ Receive(th, token, args)
    \/ \E th \in Threads : SetDefault(th)
    \/ \E th \in Threads : Check(th)
    \/ \E th \in Threads : IncrLoad(th)
    \/ \E th \in Threads : IncrStore(th)
    \/ \E th \in Threads : Flights(th)
    \/ \E th \in Threads : Return(th)

SpecIncomplete == InitTiers /\ [][NextIncomplete]_vars

\* C35: a request of a known token that lacks from, to or date goes through
\* the quota test like any other; when the count is below the limit it is
\* counted once and answered 200 with an empty list, whatever the density
\* of the caller's tier, and it is never answered 400.
C35_IncompleteQueryIsEmptySuccess ==
    [][\A th \in Threads :
          (pc'[th] # "idle" /\ request'[th].args \in IncompleteArgs) =>
              /\ (pc[th] = "check" /\ pc'[th] # "check"
                     /\ RATE_LIMIT[key[th]] < limit[th]) => pc'[th] = "incr_load"
              /\ (pc[th] = "incr_store" /\ pc'[th] # "incr_store") =>
                    /\ RATE_LIMIT'[key[th]] = RATE_LIMIT[key[th]] + 1
                    /\ pc'[th] = "flights"
              /\ (pc[th] = "flights" /\ pc'[th] # "flights") =>
                    /\ pc'[th] = "done"
                    /\ response'[th] = Ok(<< >>)
                    /\ admitted'[key[th]] = Count(admitted, key[th]) + 1
              /\ (pc[th] # "done" /\ pc'[th] = "done") =>
                    response'[th].status # 400]_vars

\* C35 witness: a pro caller, whose density is 3, is answered 200 with no
\* record for a request without a destination, and its count went up to 1
C35_Witness ==
    \E th \in Threads :
        /\ pc[th] = "done"
        /\ request[th].token \in DOMAIN users
        /\ users[request[th].token] = "pro"
        /\ "to" \notin DOMAIN request[th].args
        /\ response[th].status = 200
        /\ response[th].flights = << >>
        /\ RATE_LIMIT[key[th]] = 1

C37_StopAfterOneRequest ==
    [][/\ ~running => ~running'
       /\ \A w \in LoopThreads :
             /\ (~running /\ w_pc[w] = "test" /\ w_pc'[w] # "test")
                   => w_pc'[w] = "left"
             /\ (~running /\ w_pc[w] = "sleep" /\ w_pc'[w] # "sleep")
                   => (w_pc'[w] = "test" /\ time_left'[w] = time_left[w])
             /\ (~running /\ w_pc'[w] = "request") => w_pc[w] = "request"
             /\ (w_pc[w] = "left" /\ w_pc'[w] # "left") => w_pc'[w] = "off"]_vars

\* C37 witness: the main loop has been left after a signal, having made one
\* request and slept not once
C37_Witness ==
    /\ phase \in {"normal", "burst"}
    /\ ~running
    /\ w_pc["main"] = "left"
    /\ calls = 1
    /\ time_left["main"] = MaxIterations

(* ------------- register.py: registration and renaming ------------------ *)
\* number of records the store grows to
MaxUsers == 3

\* the names typed at the prompts, the empty line among them
Usernames == {"amy", "bob", "cat", "dan", ""}

\* line 47: uuid4 gives a token no record holds; records are never removed,
\* so the number of the new record stands for it
generate_token(list) == Len(list) + 1

\* lines 66 and 177: any(user['username'] == name for user in users ...)
Taken(list, name, own_token) ==
    \E i \in 1..Len(list) : list[i].username = name /\ list[i].token # own_token

\* a registration that does not look for the name in the store
register_userNoCheck(username) ==
    /\ Len(user_list) < MaxUsers
    /\ user_list' = Append(user_list,
                           [username |-> username, token |-> generate_token(user_list)])
    /\ reg_result' = "registered"
    /\ UNCHANGED <<server_vars, gen_vars, harness_vars, poll_vars, writing>>

\* lines 50-126: register_user(username, ...) with a valid permission level
register_user(username) ==
    /\ Len(user_list) < MaxUsers
    /\ IF Taken(user_list, username, 0)
       THEN \* lines 66-71: return None
            /\ reg_result' = "refused"
            /\ UNCHANGED user_list
       ELSE \* lines 102-113: the new record is appended and the list saved
            /\ user_list' = Append(user_list,
                                   [username |-> username,
                                    token |-> generate_token(user_list)])
            /\ reg_result' = "registered"
    /\ UNCHANGED <<server_vars, gen_vars, harness_vars, poll_vars, writing>>

\* lines 163-191: edit_username(current_user) of the logged-in user whose
\* record is the i-th of the store
edit_username(i, new_username) ==
    /\ i \in 1..Len(user_list)
    /\ IF new_username = "" \/ Taken(user_list, new_username, user_list[i].token)
       THEN \* lines 169-172 and 177-181: return
            /\ reg_result' = "refused"
            /\ UNCHANGED user_list
       ELSE \* lines 184-188
            /\ user_list' = [j \in 1..Len(user_list) |->
                                IF user_list[j].token = user_list[i].token
                                THEN [user_list[j] EXCEPT !.username = new_username]
                                ELSE user_list[j]]
            /\ reg_result' = "renamed"
    /\ UNCHANGED <<server_vars, gen_vars, harness_vars, poll_vars, writing>>

\* the operations of register.py, one at a time
NextRegister ==
    \/ \E username \in Usernames : register_user(username)
    \/ \E i \in 1..MaxUsers, new_username \in Usernames : edit_username(i, new_username)

SpecRegister == Init /\ [][NextRegister]_vars

\* C38: no two records of the store have the same username, and an
\* operation that is refused leaves the store as it was.
C38_UniqueUsernames ==
    /\ [](\A i, j \in 1..Len(user_list) :
             user_list[i].username = user_list[j].username => i = j)
    /\ [][reg_result' = "refused" => user_list' = user_list]_vars

\* C38 witness: with three records in the store, one of them renamed, the
\* last operation was refused
C38_Witness ==
    /\ Len(user_list) = MaxUsers
    /\ reg_result = "refused"
    /\ \E i \in 1..Len(user_list) : user_list[i].username = ""
    /\ user_list[1].username = "cat" /\ user_list[2].username = "amy"

(* ------------------------ the wide fallback range ---------------------- *)
\* C39: every table of PRICE_CATEGORIES and the default table define promo,
\* normal and peak; for every call, each category an iteration may resolve
\* the request's type to is one of the three and is defined in the table of
\* the call's route, so the range (0, 99999) of line 127 is not used; and
\* every generated record carries one of the three categories.
C39_FallbackRangeUnused ==
    /\ \A route \in DOMAIN PRICE_CATEGORIES :
          {"promo", "normal", "peak"} \subseteq DOMAIN PRICE_CATEGORIES[route]
    /\ {"promo", "normal", "peak"} \subseteq DOMAIN DEFAULT_PRICE_RANGES
    /\ (g_pc # "off" /\ ~MissingBasics(g_params)) =>
          \A ticket_type \in TicketTypes(Get(g_params, "type", None)) :
              /\ ticket_type \in {"promo", "normal", "peak"}
              /\ ticket_type \in
                    DOMAIN Get(PRICE_CATEGORIES, <<g_params["from"], g_params["to"]>>,
                               DEFAULT_PRICE_RANGES)
    /\ \A i \in 1..Len(generated_flights) :
          generated_flights[i].type \in {"promo", "normal", "peak"}

\* C39 witness: a call whose type is none the code knows, on a route that
\* has no table of its own, has returned a record
C39_Witness ==
    /\ Returned
    /\ Get(g_params, "type", None) = "vip"
    /\ ~MissingBasics(g_params)
    /\ <<g_params["from"], g_params["to"]>> \notin DOMAIN PRICE_CATEGORIES
    /\ Len(g_result) >= 1

====
